---- MODULE Spec2Model ----
(***************************************************************************)
(* Competitor-intelligence scrapers: the snapshot/diff engine, the v2      *)
(* price and product extractors and the daily orchestrator, as a state     *)
(* machine over the SQLite database (committed state and the open          *)
(* connection's uncommitted view).                                         *)
(*                                                                         *)
(* Text is a sequence of one-character strings.  Two symbols stand for     *)
(* whole substrings: "T1" and "T2" are two different date/time stamps      *)
(* (matches of _TIMESTAMP_PATTERN), "[TIMESTAMP]" is the placeholder.      *)
(* An HTML document is the sequence of its text nodes.                     *)
(***************************************************************************)
EXTENDS Integers, Sequences, FiniteSets, TLC

\* ------------------------------------------------------------------ bounds
NumCompetitors == 2
MaxRuns == 2
MaxFetched == 2
NumPaths == 3
MaxNodes == 3
MaxEarlier == 2
MaxDay == 2
MaxDaily == 1

VARIABLES
    db,        \* the committed database
    conn,      \* the scraper connection's view: db plus its uncommitted writes
    clock,     \* the current UTC calendar date
    runNo,     \* scraper runs started so far (the value of scraped_at)
    run,       \* the running scraper's locals and position
    fetchLog,  \* history: the fetches of the running scraper, in order
    fetched,   \* the documents served so far (at most MaxFetched)
    orch,      \* run_all_scrapers: its position, locals and results
    dash       \* the dashboard: one browser session, its last request and
               \* the response to it

vars == <<db, conn, clock, runNo, run, fetchLog, fetched, orch, dash>>

\* ------------------------------------------------------------ competitors
Competitors == 1..NumCompetitors

\* SNAPSHOT_PATHS, in the dict's insertion order
SNAPSHOT_PATHS == << [page_type |-> "homepage", path |-> ""],
                     [page_type |-> "pricing",  path |-> "/pricing"] >>

PageUrl(competitor_id, path) == [base |-> competitor_id, path |-> path]

\* ------------------------------------------------------- text primitives
Whitespace == {" "}
TimestampSyms == {"T1", "T2"}

StartsWith(s, p) == Len(s) >= Len(p) /\ SubSeq(s, 1, Len(p)) = p

\* _TIMESTAMP_PATTERN.sub("[TIMESTAMP]", html)
\* a normalization that leaves the stamps in the text
SubTimestampsKeep(text) == text

SubTimestamps(text) ==
    [i \in 1..Len(text) |->
        IF text[i] \in TimestampSyms THEN "[TIMESTAMP]" ELSE text[i]]

\* str.split(): the maximal runs of non-whitespace characters
RECURSIVE SplitWords(_)
SplitWords(text) ==
    IF text = <<>> THEN <<>>
    ELSE IF Head(text) \in Whitespace THEN SplitWords(Tail(text))
    ELSE LET rest == SplitWords(Tail(text))
         IN  IF Len(text) > 1 /\ text[2] \notin Whitespace
             THEN <<(<<Head(text)>> \o Head(rest))>> \o Tail(rest)
             ELSE <<(<<Head(text)>>)>> \o rest

\* " ".join(words)
RECURSIVE JoinWords(_)
JoinWords(words) ==
    IF words = <<>> THEN <<>>
    ELSE IF Len(words) = 1 THEN Head(words)
    ELSE Head(words) \o <<" ">> \o JoinWords(Tail(words))

CollapseWhitespace(text) == JoinWords(SplitWords(text))

NonEmpty(s) == s # <<>>

\* _normalize_for_diff: timestamps replaced, then one line per non-blank
\* text node with its whitespace collapsed
NormalizeForDiff(html) ==
    SelectSeq([i \in 1..Len(html) |-> CollapseWhitespace(SubTimestamps(html[i]))],
              NonEmpty)

\* ------------------------------------------------------------ difflib
RECURSIVE MatchLen(_, _, _, _)
MatchLen(a, b, i, j) ==
    IF i > Len(a) \/ j > Len(b) THEN 0
    ELSE IF a[i] # b[j] THEN 0
    ELSE 1 + MatchLen(a, b, i + 1, j + 1)

\* SequenceMatcher.find_longest_match: the longest common block, the one
\* starting earliest in a, then earliest in b
FindLongestMatch(a, b) ==
    LET cands == { m \in [i : 1..Len(a), j : 1..Len(b)] : a[m.i] = b[m.j] }
        k(m) == MatchLen(a, b, m.i, m.j)
        Before(m, n) == \/ k(m) > k(n)
                        \/ k(m) = k(n) /\ m.i < n.i
                        \/ k(m) = k(n) /\ m.i = n.i /\ m.j <= n.j
    IN  IF cands = {} THEN [i |-> 1, j |-> 1, k |-> 0]
        ELSE LET best == CHOOSE m \in cands : \A n \in cands : Before(m, n)
             IN  [i |-> best.i, j |-> best.j, k |-> k(best)]

Prefixed(p, lines) == [i \in 1..Len(lines) |-> <<p>> \o lines[i]]

\* the body of the unified diff: the opcodes of get_matching_blocks, a
\* replaced block giving its "-" lines and then its "+" lines
RECURSIVE DiffBody(_, _)
DiffBody(a, b) ==
    LET m == FindLongestMatch(a, b)
    IN  IF m.k = 0 THEN Prefixed("-", a) \o Prefixed("+", b)
        ELSE DiffBody(SubSeq(a, 1, m.i - 1), SubSeq(b, 1, m.j - 1))
             \o Prefixed(" ", SubSeq(a, m.i, m.i + m.k - 1))
             \o DiffBody(SubSeq(a, m.i + m.k, Len(a)), SubSeq(b, m.j + m.k, Len(b)))

SnapshotLabel(id) == <<"s", "n", "a", "p", ":", ToString(id)>>

\* _build_unified_diff: the diff text as its sequence of lines; empty when
\* the normalized documents are equal.  The documents of this model have at
\* most three lines, so the diff is one hunk holding every line.
BuildUnifiedDiff(previous_html, current_html, from_label, to_label) ==
    LET previous_lines == NormalizeForDiff(previous_html)
        current_lines == NormalizeForDiff(current_html)
    IN  IF previous_lines = current_lines THEN <<>>
        ELSE << <<"-", "-", "-", " ">> \o from_label,
                <<"+", "+", "+", " ">> \o to_label,
                <<"@", "@">> >>
             \o DiffBody(previous_lines, current_lines)

\* _count_diff_changes
RECURSIVE CountDiffChanges(_)
CountDiffChanges(diff_text) ==
    IF diff_text = <<>> THEN [additions |-> 0, removals |-> 0]
    ELSE LET line == Head(diff_text)
             rest == CountDiffChanges(Tail(diff_text))
         IN  IF StartsWith(line, <<"+", "+", "+">>) \/ StartsWith(line, <<"-", "-", "-">>)
             THEN rest
             ELSE IF StartsWith(line, <<"+">>)
             THEN [rest EXCEPT !.additions = @ + 1]
             ELSE IF StartsWith(line, <<"-">>)
             THEN [rest EXCEPT !.removals = @ + 1]
             ELSE rest

\* -------------------------------------------------------- served documents
NodeA == <<"a">>
NodeStamp1 == <<"a", " ", "T1">>
NodeStamp2 == <<" ", "a", " ", " ", "T2", " ">>
NodePlus == <<"+", "+", "a">>
NodeMinus == <<"-", "-", "a">>

\* the markup a snapshot fetch can return
SnapshotPages ==
    { <<NodeA>>, <<NodeStamp1>>, <<NodeStamp2>>,
      <<NodeA, NodePlus>>, <<NodeA, NodeMinus>> }

\* ------------------------------------------------------------- database
\* the tables of TABLES_SQL after init_database; an AUTOINCREMENT table
\* carries the last id it gave out.  stored_prices and stored_products are
\* history: every record handed to _store_price_v2 and _store_product_v2 in
\* the transactions that make up this state, in order
EmptyDb == [snapshots |-> <<>>, diffs |-> <<>>,
            prices |-> <<>>, products |-> <<>>,
            prices_v2 |-> <<>>, prices_v2_seq |-> 0,
            products_v2 |-> <<>>, products_v2_seq |-> 0,
            reviews_trustpilot |-> <<>>, reviews_google |-> <<>>,
            reviews_sentiment |-> <<>>, ab_tests |-> <<>>,
            stored_prices |-> <<>>, stored_products |-> <<>>]

\* the tables the scrapers write
WrittenTableNames == {"snapshots", "diffs", "prices_v2", "products_v2",
                      "reviews_trustpilot", "reviews_google",
                      "reviews_sentiment", "ab_tests"}

\* _to_snapshot_record
ToSnapshotRecord(competitor_id, page_type, page_url, html_content, scrape_date, scraped_at) ==
    [competitor_id |-> competitor_id, scrape_date |-> scrape_date,
     scraped_at |-> scraped_at, page_type |-> page_type, page_url |-> page_url,
     html_content |-> html_content, content_hash |-> <<"sha256", html_content>>]

\* a store that keeps one row per distinct content of a partition
StoreSnapshotDedup(c, snapshot) ==
    LET same == { i \in 1..Len(c.snapshots) :
                    /\ c.snapshots[i].competitor_id = snapshot.competitor_id
                    /\ c.snapshots[i].page_type = snapshot.page_type
                    /\ c.snapshots[i].content_hash = snapshot.content_hash }
    IN  IF same # {} THEN c
        ELSE [c EXCEPT !.snapshots = Append(@, [id |-> Len(c.snapshots) + 1] @@ snapshot)]

\* _store_snapshot: INSERT INTO snapshots; the new row's id
NextSnapshotId(c) == Len(c.snapshots) + 1

StoreSnapshot(c, snapshot) ==
    [c EXCEPT !.snapshots =
        Append(@, [id |-> NextSnapshotId(c)] @@ snapshot)]

\* a lookup by competitor alone
LatestPreviousSnapshotAnyPage(c, competitor_id, page_type, current_snapshot_id) ==
    LET older == { i \in 1..Len(c.snapshots) :
                     /\ c.snapshots[i].competitor_id = competitor_id
                     /\ c.snapshots[i].id < current_snapshot_id }
    IN  IF older = {} THEN <<>>
        ELSE LET i == CHOOSE x \in older :
                        \A y \in older : c.snapshots[y].id <= c.snapshots[x].id
             IN  <<c.snapshots[i]>>

\* _latest_previous_snapshot: the rows of the partition with a smaller id,
\* greatest id first, LIMIT 1 (a sequence of zero or one row)
LatestPreviousSnapshot(c, competitor_id, page_type, current_snapshot_id) ==
    LET older == { i \in 1..Len(c.snapshots) :
                     /\ c.snapshots[i].competitor_id = competitor_id
                     /\ c.snapshots[i].page_type = page_type
                     /\ c.snapshots[i].id < current_snapshot_id }
    IN  IF older = {} THEN <<>>
        ELSE LET i == CHOOSE x \in older :
                        \A y \in older : c.snapshots[y].id <= c.snapshots[x].id
             IN  <<c.snapshots[i]>>

\* a diff step that stores a row for every snapshot that has a predecessor
StoreDiffAlways(c, snapshot_id, snapshot) ==
    LET previous == LatestPreviousSnapshot(c, snapshot.competitor_id,
                                           snapshot.page_type, snapshot_id)
    IN  IF previous = <<>> THEN c
        ELSE LET diff_text == BuildUnifiedDiff(previous[1].html_content,
                                               snapshot.html_content,
                                               SnapshotLabel(previous[1].id),
                                               SnapshotLabel(snapshot_id))
                 counts == CountDiffChanges(diff_text)
             IN  [c EXCEPT !.diffs = Append(@,
                        [id |-> Len(c.diffs) + 1,
                         competitor_id |-> snapshot.competitor_id,
                         diff_date |-> snapshot.scrape_date,
                         page_type |-> snapshot.page_type,
                         previous_snapshot_id |-> previous[1].id,
                         current_snapshot_id |-> snapshot_id,
                         diff_text |-> diff_text,
                         additions_count |-> counts.additions,
                         removals_count |-> counts.removals])]

\* _store_diff_if_changed
StoreDiffIfChanged(c, snapshot_id, snapshot) ==
    LET previous == LatestPreviousSnapshot(c, snapshot.competitor_id,
                                           snapshot.page_type, snapshot_id)
    IN  IF previous = <<>> THEN c
        ELSE LET previous_id == previous[1].id
                 diff_text == BuildUnifiedDiff(previous[1].html_content,
                                               snapshot.html_content,
                                               SnapshotLabel(previous_id),
                                               SnapshotLabel(snapshot_id))
                 counts == CountDiffChanges(diff_text)
             IN  IF diff_text = <<>> THEN c
                 ELSE IF counts.additions = 0 /\ counts.removals = 0 THEN c
                 ELSE [c EXCEPT !.diffs = Append(@,
                        [id |-> Len(c.diffs) + 1,
                         competitor_id |-> snapshot.competitor_id,
                         diff_date |-> snapshot.scrape_date,
                         page_type |-> snapshot.page_type,
                         previous_snapshot_id |-> previous_id,
                         current_snapshot_id |-> snapshot_id,
                         diff_text |-> diff_text,
                         additions_count |-> counts.additions,
                         removals_count |-> counts.removals])]

\* ------------------------------------------------------------ scraper runs
Stopped == {"idle", "returned", "raised", "crashed"}

\* run_all_scrapers before it is called: ti is the index of the current
\* task in SCRAPER_TASKS, days the daily runs started so far
\* started and db_before are history: the tasks called so far, and the
\* database when the current task was called
IdleOrch == [phase |-> "idle", ti |-> 0, before_count |-> 0, results |-> <<>>,
             days |-> 0, started |-> <<>>, db_before |-> EmptyDb]

\* db_error is history too: a statement of the run raised sqlite3.Error.
\* The last four fields are history: the competitors whose iteration
\* began, those whose every fetch failed, those whose iteration ended, and
\* the rows the run wrote (table and row).
IdleRun == [pc |-> "idle", name |-> "none", ci |-> 0, pi |-> 0,
            scrape_date |-> 0, scraped_at |-> 0, any_success |-> FALSE,
            snapshot_count |-> 0, best_record |-> <<>>, html_pages |-> <<>>,
            ollama_ok |-> FALSE, db_error |-> FALSE,
            visited |-> {}, unreachable |-> {}, completed |-> {}, written |-> {}]

\* the head of every scrape_* function: init_database (the tables and the
\* competitors exist already), the run's date and timestamp, the connection
\* (scrape_reviews_sentiment probes the Ollama server first)
BeginRun(name) ==
    /\ \E ok \in (IF name = "reviews_sentiment" THEN BOOLEAN ELSE {FALSE}) :
          run' = [IdleRun EXCEPT !.pc = "page", !.name = name, !.ci = 1, !.pi = 1,
                                 !.scrape_date = clock, !.scraped_at = runNo + 1,
                                 !.ollama_ok = ok, !.visited = {1}]
    /\ runNo' = runNo + 1
    /\ conn' = db
    /\ fetchLog' = <<>>

\* the next iteration of the competitor loop, or the end of the loop
NextCompetitor(r) ==
    IF r.ci < NumCompetitors
    THEN [r EXCEPT !.ci = @ + 1, !.pi = 1, !.pc = "page",
                   !.best_record = <<>>, !.html_pages = <<>>,
                   !.visited = @ \cup {r.ci + 1},
                   !.completed = @ \cup {r.ci}]
    ELSE [r EXCEPT !.pc = "exit", !.completed = @ \cup {r.ci}]

\* the rows of c2 that c does not hold, with their tables
TableRows(c, table) == { c[table][i] : i \in 1..Len(c[table]) }

NewRows(c, c2) ==
    { w \in [table : WrittenTableNames,
             row : UNION { TableRows(c2, t) : t \in WrittenTableNames }] :
        w.row \in TableRows(c2, w.table) /\ w.row \notin TableRows(c, w.table) }

\* the site answers the request with a document
Served == fetched < MaxFetched /\ fetched' = fetched + 1

\* python -m scrapers.snapshots
StartSnapshots ==
    /\ run.pc \in Stopped
    /\ orch.phase \in {"idle", "done"}
    /\ runNo < MaxRuns
    /\ BeginRun("snapshots")
    /\ UNCHANGED <<db, clock, fetched, orch, dash>>

\* the end of one iteration of the page-type loop
AfterPage(r) ==
    IF r.pi < Len(SNAPSHOT_PATHS) THEN [r EXCEPT !.pi = @ + 1]
    ELSE [r EXCEPT !.pc = "commit"]

\* a failed fetch that ends the competitor's page-type loop
SnapshotFetchFailBreaks ==
    /\ run.pc = "page" /\ run.name = "snapshots"
    /\ run' = [run EXCEPT !.pc = "commit"]
    /\ fetchLog' = Append(fetchLog,
          [competitor_id |-> run.ci, path |-> SNAPSHOT_PATHS[run.pi].path,
           ok |-> FALSE, html |-> <<>>, slept |-> FALSE])
    /\ UNCHANGED <<db, conn, clock, runNo, fetched, orch, dash>>

\* scrape_snapshots, one page type: _fetch returned None
SnapshotFetchFail ==
    /\ run.pc = "page" /\ run.name = "snapshots"
    /\ run' = AfterPage(run)
    /\ fetchLog' = Append(fetchLog,
          [competitor_id |-> run.ci, path |-> SNAPSHOT_PATHS[run.pi].path,
           ok |-> FALSE, html |-> <<>>, slept |-> FALSE])
    /\ UNCHANGED <<db, conn, clock, runNo, fetched, orch, dash>>

\* scrape_snapshots, one page type: the page was fetched, the snapshot is
\* stored and diffed against the previous one of its partition
SnapshotFetchOk ==
    /\ run.pc = "page" /\ run.name = "snapshots"
    /\ Served
    /\ \E html \in SnapshotPages :
         LET pt == SNAPSHOT_PATHS[run.pi]
             snapshot == ToSnapshotRecord(run.ci, pt.page_type, PageUrl(run.ci, pt.path),
                                          html, run.scrape_date, run.scraped_at)
             snapshot_id == NextSnapshotId(conn)
         IN  /\ conn' = StoreDiffIfChanged(StoreSnapshot(conn, snapshot), snapshot_id, snapshot)
             /\ fetchLog' = Append(fetchLog,
                   [competitor_id |-> run.ci, path |-> pt.path, ok |-> TRUE, html |-> html,
                    slept |-> FALSE])
    /\ run' = AfterPage([run EXCEPT !.snapshot_count = @ + 1,
                                    !.written = @ \cup NewRows(conn, conn')])
    /\ UNCHANGED <<db, clock, runNo, orch, dash>>

\* scrape_snapshots, after the page types of one competitor: conn.commit()
SnapshotCommit ==
    /\ run.pc = "commit" /\ run.name = "snapshots"
    /\ db' = conn
    /\ run' = NextCompetitor([run EXCEPT
                 !.any_success = @ \/ run.snapshot_count > 0,
                 !.snapshot_count = 0])
    /\ UNCHANGED <<conn, clock, runNo, fetchLog, fetched, orch, dash>>

\* the end of the with-block (the connection commits) and the return
ScraperReturn ==
    /\ run.pc = "exit"
    /\ db' = conn
    /\ run' = [run EXCEPT !.pc = "returned"]
    /\ UNCHANGED <<conn, clock, runNo, fetchLog, fetched, orch, dash>>

\* ---------------------------------------------------------------- pricing
\* the first NumPaths candidate paths of PRICING_PATHS and PRODUCT_PATHS
PRICING_PATHS == SubSeq(<<"", "/pricing", "/prices", "/onward-ticket", "/product">>, 1, NumPaths)
PRODUCT_PATHS == SubSeq(<<"", "/pricing", "/products", "/services", "/onward-ticket">>, 1, NumPaths)

MAX_TEXT_LENGTH == 300

\* A pricing page is what the extractors read of it: the __NEXT_DATA__
\* script tag, if any (json_ok: it has a string that parses; matches: the
\* PRICE_PATTERN matches in the re-serialized blob, in order), and the text
\* nodes matching PRICE_PATTERN in document order, each with its length,
\* whether it holds a noise indicator, whether it holds "(+", its first
\* price match and its ADDON_INLINE_PATTERN matches.
TextNode(length, indicator, addon_delta, amount, addons) ==
    [length |-> length, indicator |-> indicator, addon_delta |-> addon_delta,
     currency |-> "USD", amount |-> amount, addons |-> addons]

PriceNone == [next_data |-> <<>>, texts |-> <<>>]
PriceText16 == [next_data |-> <<>>,
                texts |-> << TextNode(30, FALSE, FALSE, 16, <<>>) >>]
PriceNoisy14 ==
    [next_data |-> <<>>,
     texts |-> << TextNode(28, TRUE, FALSE, 9, <<>>),
                  TextNode(12, FALSE, FALSE, 14, <<>>),
                  TextNode(16, FALSE, TRUE, 7, << [name |-> "Round Trip", price |-> 7] >>),
                  TextNode(16, FALSE, TRUE, 8, << [name |-> "round trip", price |-> 8] >>) >>]
PriceNext10 ==
    [next_data |-> << [json_ok |-> TRUE,
                       matches |-> << [currency |-> "USD", amount |-> 20],
                                      [currency |-> "EUR", amount |-> 10],
                                      [currency |-> "USD", amount |-> 20] >>] >>,
     texts |-> << TextNode(400, FALSE, FALSE, 20, <<>>) >>]

PriceText8 == [next_data |-> <<>>,
               texts |-> << TextNode(24, FALSE, FALSE, 8, <<>>) >>]

PricingPages == {PriceNone, PriceText16, PriceNoisy14, PriceNext10, PriceText8}

\* a filter on the length alone
IsNoiseTextLengthOnly(node) == node.length > MAX_TEXT_LENGTH

\* _is_noise_text
IsNoiseText(node) == node.length > MAX_TEXT_LENGTH \/ node.indicator

\* str.lower() on the add-on names of the pages above
Lower(name) == IF name = "Round Trip" THEN "round trip" ELSE name

\* the first occurrence of each amount (seen_amounts)
RECURSIVE DedupAmounts(_, _)
DedupAmounts(matches, seen) ==
    IF matches = <<>> THEN <<>>
    ELSE IF Head(matches).amount \in seen THEN DedupAmounts(Tail(matches), seen)
    ELSE <<Head(matches)>> \o DedupAmounts(Tail(matches), seen \cup {Head(matches).amount})

\* min(..., key=amount) and the strict "<" loops: the first entry with the
\* least amount
FirstMin(entries) ==
    entries[CHOOSE i \in 1..Len(entries) :
               /\ \A j \in 1..Len(entries) : entries[i].amount <= entries[j].amount
               /\ \A j \in 1..(i - 1) : entries[j].amount > entries[i].amount]

NotMain(main_price, matches) ==
    SelectSeq([i \in 1..Len(matches) |->
                  IF matches[i].amount # main_price
                  THEN << [name |-> <<"Addon $", matches[i].amount>>,
                           price |-> matches[i].amount] >>
                  ELSE <<>>], NonEmpty)

RECURSIVE Flatten(_)
Flatten(seqs) == IF seqs = <<>> THEN <<>> ELSE Head(seqs) \o Flatten(Tail(seqs))

\* _extract_from_next_data: (main_price, addons, currency), main_price a
\* sequence of zero or one amount
ExtractFromNextData(page) ==
    LET none == [main_price |-> <<>>, addons |-> <<>>, currency |-> "USD"]
    IN  IF page.next_data = <<>> THEN none
        ELSE IF ~ page.next_data[1].json_ok THEN none
        ELSE LET matches == DedupAmounts(page.next_data[1].matches, {})
             IN  IF matches = <<>> THEN none
                 ELSE LET least == FirstMin(matches)
                      IN  [main_price |-> <<least.amount>>,
                           addons |-> Flatten(NotMain(least.amount, matches)),
                           currency |-> least.currency]

\* _extract_addons_from_text over the price texts, first name (lowercased)
\* wins
RECURSIVE DedupAddons(_, _)
DedupAddons(addons, seen) ==
    IF addons = <<>> THEN <<>>
    ELSE IF Lower(Head(addons).name) \in seen THEN DedupAddons(Tail(addons), seen)
    ELSE <<Head(addons)>> \o DedupAddons(Tail(addons), seen \cup {Lower(Head(addons).name)})

ValidAddon(a) == a.name # "" /\ a.price > 0
IsClean(node) == ~ IsNoiseText(node)
IsMainCandidate(node) == ~ node.addon_delta

\* extract_pricing_v2: a sequence of zero or one PriceV2Record
ExtractPricingV2(competitor_id, page, source_url, scrape_date, scraped_at) ==
    LET price_texts == SelectSeq(page.texts, IsClean)
        candidates == SelectSeq(price_texts, IsMainCandidate)
    IN  IF price_texts = <<>> THEN <<>>
        ELSE IF candidates = <<>> THEN <<>>
        ELSE LET best == FirstMin(candidates)
                 found == Flatten([i \in 1..Len(price_texts) |->
                                      SelectSeq(price_texts[i].addons, ValidAddon)])
             IN  << [competitor_id |-> competitor_id, scrape_date |-> scrape_date,
                     scraped_at |-> scraped_at, main_price |-> best.amount,
                     currency |-> best.currency, addons |-> DedupAddons(found, {}),
                     source_url |-> source_url] >>

SameKey(row, record) ==
    row.competitor_id = record.competitor_id /\ row.scrape_date = record.scrape_date

\* a plain INSERT, without the replacement
StorePriceV2Insert(c, record) ==
    [c EXCEPT !.prices_v2 = Append(@, [id |-> c.prices_v2_seq + 1] @@ record),
              !.prices_v2_seq = @ + 1,
              !.stored_prices = Append(@, record)]

\* _store_price_v2: INSERT OR REPLACE under UNIQUE(competitor_id, scrape_date)
StorePriceV2(c, record) ==
    LET Kept(row) == ~ SameKey(row, record)
    IN  [c EXCEPT !.prices_v2 = Append(SelectSeq(@, Kept),
                                       [id |-> c.prices_v2_seq + 1] @@ record),
                  !.prices_v2_seq = @ + 1,
                  !.stored_prices = Append(@, record)]

\* python -m scrapers.pricing
StartPricing ==
    /\ run.pc \in Stopped
    /\ orch.phase \in {"idle", "done"}
    /\ runNo < MaxRuns
    /\ BeginRun("pricing")
    /\ UNCHANGED <<db, clock, fetched, orch, dash>>

\* the end of one iteration of a candidate-path loop; stop: the loop breaks
AfterPath(r, paths, stop) ==
    IF stop \/ r.pi >= Len(paths) THEN [r EXCEPT !.pc = "store"]
    ELSE [r EXCEPT !.pi = @ + 1]

\* one _fetch call noted in the history; slept: time.sleep ran between the
\* run's previous fetch and this one
LogFetch(competitor_id, path, ok, html, slept) ==
    Append(fetchLog, [competitor_id |-> competitor_id, path |-> path, ok |-> ok,
                      html |-> html, slept |-> slept])

\* every fetch of the competitor's paths failed
AllFailed(log, paths) ==
    Len(log) = Len(paths) /\ \A k \in 1..Len(log) : ~ log[k].ok

NoteUnreachable(r, log, paths) ==
    IF AllFailed(log, paths) THEN [r EXCEPT !.unreachable = @ \cup {r.ci}] ELSE r

\* a failed fetch that ends the competitor loop
PricingFetchFailAborts ==
    /\ run.pc = "page" /\ run.name = "pricing"
    /\ fetchLog' = LogFetch(run.ci, PRICING_PATHS[run.pi], FALSE, <<>>, run.pi > 1)
    /\ run' = [run EXCEPT !.pc = "exit"]
    /\ UNCHANGED <<db, conn, clock, runNo, fetched, orch, dash>>

\* scrape_pricing, one candidate path: _fetch returned None
PricingFetchFail ==
    /\ run.pc = "page" /\ run.name = "pricing"
    /\ fetchLog' = LogFetch(run.ci, PRICING_PATHS[run.pi], FALSE, <<>>, run.pi > 1)
    /\ run' = NoteUnreachable(AfterPath(run, PRICING_PATHS, FALSE), fetchLog', PRICING_PATHS)
    /\ UNCHANGED <<db, conn, clock, runNo, fetched, orch, dash>>

\* a path loop that goes on after a homepage hit of the text strategy
PricingStepPastHomepage(r, page) ==
    LET path == PRICING_PATHS[r.pi]
        page_url == PageUrl(r.ci, path)
        nd == ExtractFromNextData(page)
        record == ExtractPricingV2(r.ci, page, page_url, r.scrape_date, r.scraped_at)
        better == \/ r.best_record = <<>>
                  \/ record[1].main_price < r.best_record[1].main_price
    IN  IF page.next_data # <<>> /\ nd.main_price # <<>>
        THEN AfterPath([r EXCEPT !.best_record =
                          << [competitor_id |-> r.ci, scrape_date |-> r.scrape_date,
                              scraped_at |-> r.scraped_at, main_price |-> nd.main_price[1],
                              currency |-> nd.currency, addons |-> nd.addons,
                              source_url |-> page_url] >>],
                       PRICING_PATHS, TRUE)
        ELSE IF record # <<>>
        THEN AfterPath([r EXCEPT !.best_record = IF better THEN record ELSE @],
                       PRICING_PATHS, FALSE)
        ELSE AfterPath(r, PRICING_PATHS, FALSE)

\* a path loop that goes on after a hit of the structured payload
PricingStepPastPayload(r, page) ==
    LET path == PRICING_PATHS[r.pi]
        page_url == PageUrl(r.ci, path)
        nd == ExtractFromNextData(page)
        record == ExtractPricingV2(r.ci, page, page_url, r.scrape_date, r.scraped_at)
        better == \/ r.best_record = <<>>
                  \/ record[1].main_price < r.best_record[1].main_price
    IN  IF page.next_data # <<>> /\ nd.main_price # <<>>
        THEN AfterPath([r EXCEPT !.best_record =
                          << [competitor_id |-> r.ci, scrape_date |-> r.scrape_date,
                              scraped_at |-> r.scraped_at, main_price |-> nd.main_price[1],
                              currency |-> nd.currency, addons |-> nd.addons,
                              source_url |-> page_url] >>],
                       PRICING_PATHS, FALSE)
        ELSE IF record # <<>>
        THEN AfterPath([r EXCEPT !.best_record = IF better THEN record ELSE @],
                       PRICING_PATHS, path = "")
        ELSE AfterPath(r, PRICING_PATHS, FALSE)

\* scrape_pricing, one candidate path fetched: the structured payload first,
\* then the text nodes; the running best; the two breaks
PricingStep(r, page) ==
    LET path == PRICING_PATHS[r.pi]
        page_url == PageUrl(r.ci, path)
        nd == ExtractFromNextData(page)
        record == ExtractPricingV2(r.ci, page, page_url, r.scrape_date, r.scraped_at)
        better == \/ r.best_record = <<>>
                  \/ record[1].main_price < r.best_record[1].main_price
    IN  IF page.next_data # <<>> /\ nd.main_price # <<>>
        THEN AfterPath([r EXCEPT !.best_record =
                          << [competitor_id |-> r.ci, scrape_date |-> r.scrape_date,
                              scraped_at |-> r.scraped_at, main_price |-> nd.main_price[1],
                              currency |-> nd.currency, addons |-> nd.addons,
                              source_url |-> page_url] >>],
                       PRICING_PATHS, TRUE)
        ELSE IF record # <<>>
        THEN AfterPath([r EXCEPT !.best_record = IF better THEN record ELSE @],
                       PRICING_PATHS, path = "")
        ELSE AfterPath(r, PRICING_PATHS, FALSE)

PricingFetchOk ==
    /\ run.pc = "page" /\ run.name = "pricing"
    /\ Served
    /\ \E page \in PricingPages :
          /\ run' = PricingStep(run, page)
          /\ fetchLog' = LogFetch(run.ci, PRICING_PATHS[run.pi], TRUE, page, run.pi > 1)
    /\ UNCHANGED <<db, conn, clock, runNo, orch, dash>>

\* scrape_pricing after the path loop: no price on any path, a warning
PricingNoRecord ==
    /\ run.pc = "store" /\ run.name = "pricing"
    /\ run.best_record = <<>>
    /\ run' = NextCompetitor(run)
    /\ fetchLog' = <<>>
    /\ UNCHANGED <<db, conn, clock, runNo, fetched, orch, dash>>

\* scrape_pricing after the path loop: _store_price_v2(conn, best_record)
PricingStore ==
    /\ run.pc = "store" /\ run.name = "pricing"
    /\ run.best_record # <<>>
    /\ conn' = StorePriceV2(conn, run.best_record[1])
    /\ run' = [run EXCEPT !.pc = "commit", !.written = @ \cup NewRows(conn, conn')]
    /\ UNCHANGED <<db, clock, runNo, fetchLog, fetched, orch, dash>>

\* the competitor's rows left to the commit at the end of the run
PricingCommitDeferred ==
    /\ run.pc = "commit" /\ run.name = "pricing"
    /\ run' = NextCompetitor([run EXCEPT !.any_success = TRUE])
    /\ fetchLog' = <<>>
    /\ UNCHANGED <<db, conn, clock, runNo, fetched, orch, dash>>

\* scrape_pricing: conn.commit(); any_success = True
PricingCommit ==
    /\ run.pc = "commit" /\ run.name = "pricing"
    /\ db' = conn
    /\ run' = NextCompetitor([run EXCEPT !.any_success = TRUE])
    /\ fetchLog' = <<>>
    /\ UNCHANGED <<conn, clock, runNo, fetched, orch, dash>>

\* --------------------------------------------------------------- products
Categories == {"one_way", "round_trip", "hotel", "visa_letter"}

\* _ONE_WAY_KEYWORDS, _ROUND_TRIP_KEYWORDS, _HOTEL_KEYWORDS, _VISA_LETTER_KEYWORDS
KEYWORDS ==
    [cat \in Categories |->
        CASE cat = "one_way" ->
               {"one-way", "one way", "onward ticket", "dummy ticket", "flight reservation"}
          [] cat = "round_trip" ->
               {"round trip", "round-trip", "return", "two-way", "two way"}
          [] cat = "hotel" -> {"hotel", "accommodation", "hostel"}
          [] cat = "visa_letter" -> {"visa", "support letter", "invitation letter"}]

\* the anchor keywords tried for a price, in the order of the for loops
ANCHORS ==
    [cat \in Categories |->
        CASE cat = "one_way" -> <<"one-way", "one way", "onward ticket", "dummy ticket">>
          [] cat = "round_trip" -> <<"round trip", "round-trip", "return">>
          [] cat = "hotel" -> <<"hotel", "accommodation", "hostel">>
          [] cat = "visa_letter" -> <<"visa", "support letter", "invitation letter">>]

\* A product page is what the extractor reads of its lowercased visible
\* text: the keywords occurring in it and, for each, the first price in the
\* window around its first occurrence (a sequence of zero or one amount).
ProdBlank == [keywords |-> {}, near |-> [kw \in {} |-> <<>>]]
ProdTicket ==
    [keywords |-> {"one way", "flight reservation", "hotel"},
     near |-> [kw \in {"one way", "flight reservation", "hotel"} |->
                  CASE kw = "one way" -> <<>>
                    [] kw = "flight reservation" -> <<12>>
                    [] kw = "hotel" -> <<30>>]]
ProdPriced ==
    [keywords |-> {"one way", "return", "visa"},
     near |-> [kw \in {"one way", "return", "visa"} |->
                  CASE kw = "one way" -> <<12>>
                    [] kw = "return" -> <<19>>
                    [] kw = "visa" -> <<>>]]

ProductPages == {ProdBlank, ProdTicket, ProdPriced}

\* _detect_category
DetectCategory(page, keywords) == page.keywords \cap keywords # {}

\* _extract_price_near_keyword
ExtractPriceNearKeyword(page, keyword) ==
    IF keyword \notin page.keywords THEN <<>> ELSE page.near[keyword]

\* the first anchor keyword of the page that has a price
RECURSIVE FirstAnchorPrice(_, _)
FirstAnchorPrice(page, anchors) ==
    IF anchors = <<>> THEN <<>>
    ELSE IF ExtractPriceNearKeyword(page, Head(anchors)) # <<>>
    THEN ExtractPriceNearKeyword(page, Head(anchors))
    ELSE FirstAnchorPrice(page, Tail(anchors))

\* one page of the loop of extract_products_v2, on the flags and prices
MergePage(acc, page) ==
    [cat \in Categories |->
        IF ~ acc[cat].offered /\ DetectCategory(page, KEYWORDS[cat])
        THEN [offered |-> TRUE,
              price |-> IF acc[cat].price = <<>>
                        THEN FirstAnchorPrice(page, ANCHORS[cat])
                        ELSE acc[cat].price]
        ELSE acc[cat]]

\* a merge that reads the first fetched page only
MergePagesFirstOnly(acc, html_pages) ==
    IF html_pages = <<>> THEN acc ELSE MergePage(acc, Head(html_pages).html)

RECURSIVE MergePages(_, _)
MergePages(acc, html_pages) ==
    IF html_pages = <<>> THEN acc
    ELSE MergePages(MergePage(acc, Head(html_pages).html), Tail(html_pages))

\* extract_products_v2
ExtractProductsV2(competitor_id, html_pages, scrape_date, scraped_at) ==
    LET merged == MergePages([cat \in Categories |-> [offered |-> FALSE, price |-> <<>>]],
                             html_pages)
    IN  [competitor_id |-> competitor_id, scrape_date |-> scrape_date,
         scraped_at |-> scraped_at,
         one_way_offered |-> merged["one_way"].offered,
         one_way_price |-> merged["one_way"].price,
         round_trip_offered |-> merged["round_trip"].offered,
         round_trip_price |-> merged["round_trip"].price,
         hotel_offered |-> merged["hotel"].offered,
         hotel_price |-> merged["hotel"].price,
         visa_letter_offered |-> merged["visa_letter"].offered,
         visa_letter_price |-> merged["visa_letter"].price,
         source_url |-> IF html_pages = <<>> THEN <<>> ELSE <<html_pages[1].url>>]

\* _store_product_v2: INSERT OR REPLACE under UNIQUE(competitor_id, scrape_date)
StoreProductV2(c, record) ==
    LET Kept(row) == ~ SameKey(row, record)
    IN  [c EXCEPT !.products_v2 = Append(SelectSeq(@, Kept),
                                         [id |-> c.products_v2_seq + 1] @@ record),
                  !.products_v2_seq = @ + 1,
                  !.stored_products = Append(@, record)]

\* python -m scrapers.products
StartProducts ==
    /\ run.pc \in Stopped
    /\ orch.phase \in {"idle", "done"}
    /\ runNo < MaxRuns
    /\ BeginRun("products")
    /\ UNCHANGED <<db, clock, fetched, orch, dash>>

\* scrape_products, one candidate path: _fetch returned None
ProductsFetchFail ==
    /\ run.pc = "page" /\ run.name = "products"
    /\ fetchLog' = LogFetch(run.ci, PRODUCT_PATHS[run.pi], FALSE, <<>>, run.pi > 1)
    /\ run' = NoteUnreachable(AfterPath(run, PRODUCT_PATHS, FALSE), fetchLog', PRODUCT_PATHS)
    /\ UNCHANGED <<db, conn, clock, runNo, fetched, orch, dash>>

\* scrape_products, one candidate path fetched: html_pages.append
ProductsFetchOk ==
    /\ run.pc = "page" /\ run.name = "products"
    /\ Served
    /\ \E page \in ProductPages :
         run' = AfterPath([run EXCEPT !.html_pages =
                             Append(@, [url |-> PageUrl(run.ci, PRODUCT_PATHS[run.pi]),
                                        html |-> page])],
                          PRODUCT_PATHS, FALSE)
    /\ fetchLog' = LogFetch(run.ci, PRODUCT_PATHS[run.pi], TRUE,
                            run'.html_pages[Len(run'.html_pages)].html, run.pi > 1)
    /\ UNCHANGED <<db, conn, clock, runNo, orch, dash>>

\* a loop without the check for an empty html_pages
ProductsSkipStores ==
    /\ run.pc = "store" /\ run.name = "products"
    /\ run.html_pages = <<>>
    /\ conn' = StoreProductV2(conn, ExtractProductsV2(run.ci, run.html_pages,
                                                      run.scrape_date, run.scraped_at))
    /\ run' = [run EXCEPT !.pc = "commit", !.written = @ \cup NewRows(conn, conn')]
    /\ UNCHANGED <<db, clock, runNo, fetchLog, fetched, orch, dash>>

\* scrape_products after the path loop: no page fetched, continue
ProductsSkip ==
    /\ run.pc = "store" /\ run.name = "products"
    /\ run.html_pages = <<>>
    /\ run' = NextCompetitor(run)
    /\ fetchLog' = <<>>
    /\ UNCHANGED <<db, conn, clock, runNo, fetched, orch, dash>>

\* scrape_products after the path loop: extract_products_v2 and
\* _store_product_v2
ProductsStore ==
    /\ run.pc = "store" /\ run.name = "products"
    /\ run.html_pages # <<>>
    /\ conn' = StoreProductV2(conn, ExtractProductsV2(run.ci, run.html_pages,
                                                      run.scrape_date, run.scraped_at))
    /\ run' = [run EXCEPT !.pc = "commit", !.written = @ \cup NewRows(conn, conn')]
    /\ UNCHANGED <<db, clock, runNo, fetchLog, fetched, orch, dash>>

\* scrape_products: conn.commit(); any_success = True
ProductsCommit ==
    /\ run.pc = "commit" /\ run.name = "products"
    /\ db' = conn
    /\ run' = NextCompetitor([run EXCEPT !.any_success = TRUE])
    /\ fetchLog' = <<>>
    /\ UNCHANGED <<conn, clock, runNo, fetched, orch, dash>>

\* ------------------------------------------------------- review metrics
\* A review page is what each strategy of the extractor finds in it; an
\* absent value (None) is the empty sequence, a star distribution a
\* function from star levels to counts.
NoDistribution == [star \in {} |-> 0]

Get(distribution, star) ==
    IF star \in DOMAIN distribution THEN <<distribution[star]>> ELSE <<>>

TpBlank == [next_data |-> [rating |-> <<>>, count |-> <<>>, distribution |-> NoDistribution],
            ld_json |-> [rating |-> <<>>, count |-> <<>>],
            json_blob |-> NoDistribution, text |-> NoDistribution]
TpNextData == [TpBlank EXCEPT !.next_data = [rating |-> <<4>>, count |-> <<12>>,
                                             distribution |-> (5 :> 9 @@ 1 :> 3)],
                              !.ld_json = [rating |-> <<3>>, count |-> <<10>>]]
TpLdJson == [TpBlank EXCEPT !.ld_json = [rating |-> <<3>>, count |-> <<>>],
                            !.text = (1 :> 2)]
TrustpilotPages == {TpBlank, TpNextData, TpLdJson}

\* the aggregate-rating block consulted before the __NEXT_DATA__ payload
ExtractTrustpilotReviewRecordLdFirst(competitor_id, page, source_url, scrape_date, scraped_at) ==
    LET ld == page.ld_json
        fall == ld.rating = <<>> /\ ld.count = <<>>
        overall_rating == IF fall THEN page.next_data.rating ELSE ld.rating
        review_count == IF fall THEN page.next_data.count ELSE ld.count
        d1 == page.next_data.distribution
        d2 == IF DOMAIN d1 = {} THEN page.json_blob ELSE d1
        distribution == IF DOMAIN d2 = {} THEN page.text ELSE d2
    IN  IF overall_rating = <<>> /\ review_count = <<>> /\ DOMAIN distribution = {}
        THEN <<>>
        ELSE << [competitor_id |-> competitor_id, scrape_date |-> scrape_date,
                 scraped_at |-> scraped_at, overall_rating |-> overall_rating,
                 review_count |-> review_count,
                 stars_5 |-> Get(distribution, 5), stars_4 |-> Get(distribution, 4),
                 stars_3 |-> Get(distribution, 3), stars_2 |-> Get(distribution, 2),
                 stars_1 |-> Get(distribution, 1), source_url |-> source_url] >>

\* extract_trustpilot_review_record
ExtractTrustpilotReviewRecord(competitor_id, page, source_url, scrape_date, scraped_at) ==
    LET nd == page.next_data
        fall == nd.rating = <<>> /\ nd.count = <<>>
        overall_rating == IF fall THEN page.ld_json.rating ELSE nd.rating
        review_count == IF fall THEN page.ld_json.count ELSE nd.count
        d1 == nd.distribution
        d2 == IF DOMAIN d1 = {} THEN page.json_blob ELSE d1
        distribution == IF DOMAIN d2 = {} THEN page.text ELSE d2
    IN  IF overall_rating = <<>> /\ review_count = <<>> /\ DOMAIN distribution = {}
        THEN <<>>
        ELSE << [competitor_id |-> competitor_id, scrape_date |-> scrape_date,
                 scraped_at |-> scraped_at, overall_rating |-> overall_rating,
                 review_count |-> review_count,
                 stars_5 |-> Get(distribution, 5), stars_4 |-> Get(distribution, 4),
                 stars_3 |-> Get(distribution, 3), stars_2 |-> Get(distribution, 2),
                 stars_1 |-> Get(distribution, 1), source_url |-> source_url] >>

\* an INSERT OR REPLACE on (competitor_id, scrape_date)
StoreTrustpilotRecordReplace(c, record) ==
    LET Kept(row) == ~ SameKey(row, record)
    IN  [c EXCEPT !.reviews_trustpilot =
            Append(SelectSeq(@, Kept),
                   [id |-> Len(c.reviews_trustpilot) + 1,
                    total_reviews |-> record.review_count,
                    rating_5 |-> record.stars_5, rating_4 |-> record.stars_4,
                    rating_3 |-> record.stars_3, rating_2 |-> record.stars_2,
                    rating_1 |-> record.stars_1] @@ record)]

\* _store_review_record of reviews_trustpilot.py: a plain INSERT
StoreTrustpilotRecord(c, record) ==
    [c EXCEPT !.reviews_trustpilot =
        Append(@, [id |-> Len(c.reviews_trustpilot) + 1,
                   total_reviews |-> record.review_count,
                   rating_5 |-> record.stars_5, rating_4 |-> record.stars_4,
                   rating_3 |-> record.stars_3, rating_2 |-> record.stars_2,
                   rating_1 |-> record.stars_1] @@ record)]

\* python -m scrapers.reviews_trustpilot
StartTrustpilot ==
    /\ run.pc \in Stopped
    /\ orch.phase \in {"idle", "done"}
    /\ runNo < MaxRuns
    /\ BeginRun("reviews_trustpilot")
    /\ UNCHANGED <<db, clock, fetched, orch, dash>>

\* scrape_reviews_trustpilot, one competitor: _fetch returned None
TrustpilotFetchFail ==
    /\ run.pc = "page" /\ run.name = "reviews_trustpilot"
    /\ fetchLog' = LogFetch(run.ci, "trustpilot", FALSE, <<>>, FALSE)
    /\ run' = NextCompetitor([run EXCEPT !.unreachable = @ \cup {run.ci}])
    /\ UNCHANGED <<db, conn, clock, runNo, fetched, orch, dash>>

\* scrape_reviews_trustpilot, one competitor: the page was fetched; no
\* metrics parsed (continue), or the record is stored
TrustpilotFetchOk ==
    /\ run.pc = "page" /\ run.name = "reviews_trustpilot"
    /\ Served
    /\ \E page \in TrustpilotPages :
         /\ fetchLog' = LogFetch(run.ci, "trustpilot", TRUE, page, FALSE)
         /\ LET record == ExtractTrustpilotReviewRecord(run.ci, page, <<"trustpilot", run.ci>>,
                                                        run.scrape_date, run.scraped_at)
            IN  IF record = <<>>
                THEN conn' = conn /\ run' = NextCompetitor(run)
                ELSE /\ conn' = StoreTrustpilotRecord(conn, record[1])
                     /\ run' = [run EXCEPT !.pc = "commit",
                                           !.written = @ \cup NewRows(conn, conn')]
    /\ UNCHANGED <<db, clock, runNo, orch, dash>>

\* scrape_reviews_trustpilot: conn.commit(); any_success = True
TrustpilotCommit ==
    /\ run.pc = "commit" /\ run.name = "reviews_trustpilot"
    /\ db' = conn
    /\ run' = NextCompetitor([run EXCEPT !.any_success = TRUE])
    /\ UNCHANGED <<conn, clock, runNo, fetchLog, fetched, orch, dash>>

\* A Google listing: the first ld+json aggregate with a value, the itemprop
\* tags, the first text pattern with a value.
Aggregate(rating, count) == [rating |-> rating, count |-> count]

GBlank == [ld_json |-> Aggregate(<<>>, <<>>), itemprop |-> Aggregate(<<>>, <<>>),
           text |-> Aggregate(<<>>, <<>>)]
GItemprop == [GBlank EXCEPT !.itemprop = Aggregate(<<4>>, <<>>),
                            !.text = Aggregate(<<5>>, <<80>>)]
GLdJson == [GBlank EXCEPT !.ld_json = Aggregate(<<3>>, <<40>>),
                          !.itemprop = Aggregate(<<4>>, <<>>)]
GooglePages == {GBlank, GItemprop, GLdJson}

HasValue(aggregate) == aggregate.rating # <<>> \/ aggregate.count # <<>>

\* _extract_aggregate_values of reviews_google.py
ExtractAggregateValues(page) ==
    IF HasValue(page.ld_json) THEN page.ld_json
    ELSE IF HasValue(page.itemprop) THEN page.itemprop
    ELSE IF HasValue(page.text) THEN page.text
    ELSE Aggregate(<<>>, <<>>)

\* extract_google_review_record
ExtractGoogleReviewRecord(competitor_id, page, source_url, scrape_date, scraped_at) ==
    LET found == ExtractAggregateValues(page)
    IN  IF ~ HasValue(found) THEN <<>>
        ELSE << [competitor_id |-> competitor_id, scrape_date |-> scrape_date,
                 scraped_at |-> scraped_at, overall_rating |-> found.rating,
                 review_count |-> found.count, source_url |-> source_url] >>

\* _store_review_record of reviews_google.py: a plain INSERT
StoreGoogleRecord(c, record) ==
    [c EXCEPT !.reviews_google =
        Append(@, [id |-> Len(c.reviews_google) + 1,
                   total_reviews |-> record.review_count] @@ record)]

\* python -m scrapers.reviews_sentiment
StartSentiment ==
    /\ run.pc \in Stopped
    /\ orch.phase \in {"idle", "done"}
    /\ runNo < MaxRuns
    /\ BeginRun("reviews_sentiment")
    /\ UNCHANGED <<db, clock, fetched, orch, dash>>

\* python -m scrapers.reviews_google
StartGoogle ==
    /\ run.pc \in Stopped
    /\ orch.phase \in {"idle", "done"}
    /\ runNo < MaxRuns
    /\ BeginRun("reviews_google")
    /\ UNCHANGED <<db, clock, fetched, orch, dash>>

\* scrape_reviews_google, one competitor: _fetch returned None
GoogleFetchFail ==
    /\ run.pc = "page" /\ run.name = "reviews_google"
    /\ fetchLog' = LogFetch(run.ci, "google", FALSE, <<>>, FALSE)
    /\ run' = NextCompetitor([run EXCEPT !.unreachable = @ \cup {run.ci}])
    /\ UNCHANGED <<db, conn, clock, runNo, fetched, orch, dash>>

\* scrape_reviews_google, one competitor: the listing was fetched
GoogleFetchOk ==
    /\ run.pc = "page" /\ run.name = "reviews_google"
    /\ Served
    /\ \E page \in GooglePages :
         /\ fetchLog' = LogFetch(run.ci, "google", TRUE, page, FALSE)
         /\ LET record == ExtractGoogleReviewRecord(run.ci, page, <<"google", run.ci>>,
                                                    run.scrape_date, run.scraped_at)
            IN  IF record = <<>>
                THEN conn' = conn /\ run' = NextCompetitor(run)
                ELSE /\ conn' = StoreGoogleRecord(conn, record[1])
                     /\ run' = [run EXCEPT !.pc = "commit",
                                           !.written = @ \cup NewRows(conn, conn')]
    /\ UNCHANGED <<db, clock, runNo, orch, dash>>

\* scrape_reviews_google: conn.commit(); any_success = True
GoogleCommit ==
    /\ run.pc = "commit" /\ run.name = "reviews_google"
    /\ db' = conn
    /\ run' = NextCompetitor([run EXCEPT !.any_success = TRUE])
    /\ UNCHANGED <<conn, clock, runNo, fetchLog, fetched, orch, dash>>

\* --------------------------------------------------------- review themes
STAR_LEVELS == <<1, 2, 3>>

Theme(theme, mention_count, sample_quotes) ==
    [theme |-> theme, mention_count |-> mention_count, sample_quotes |-> sample_quotes]

\* A filtered review page: the review texts of its __NEXT_DATA__ payload
\* longer than 10 characters, and the most common bigrams of their words of
\* four letters and more, with their counts.
SentBlank == [reviews |-> <<>>, bigrams |-> <<>>]
SentShort == [reviews |-> <<"no refund yet">>, bigrams |-> <<>>]
SentReviews == [reviews |-> <<"slow refund again", "very slow refund">>,
                bigrams |-> << [pair |-> "slow refund", count |-> 2] >>]
SentimentPages == {SentBlank, SentShort, SentReviews}

\* _extract_reviews_from_next_data
ExtractReviewsFromNextData(page) == page.reviews

\* _extract_themes_ollama: the request failed (no themes), the reply held
\* no parsable array (no themes), or the themes of the reply
OllamaAnswers(reviews) ==
    { [ollama |-> "failed", themes |-> <<>>],
      [ollama |-> "answered", themes |-> <<>>],
      [ollama |-> "answered",
       themes |-> << Theme("Slow Refund", IF 4 < Len(reviews) THEN 4 ELSE Len(reviews),
                           <<"slow refund">>) >>] }

\* _fallback_themes
FallbackThemes(page) ==
    [i \in 1..Len(page.bigrams) |->
        Theme(page.bigrams[i].pair, page.bigrams[i].count, <<>>)]

\* _store_themes, one theme: INSERT ... ON CONFLICT(competitor_id,
\* scrape_date, stars_filter, theme) DO UPDATE
StoreTheme(c, competitor_id, scrape_date, scraped_at, stars, t) ==
    LET hit == { i \in 1..Len(c.reviews_sentiment) :
                   /\ c.reviews_sentiment[i].competitor_id = competitor_id
                   /\ c.reviews_sentiment[i].scrape_date = scrape_date
                   /\ c.reviews_sentiment[i].stars_filter = stars
                   /\ c.reviews_sentiment[i].theme = t.theme }
    IN  IF hit = {}
        THEN [c EXCEPT !.reviews_sentiment =
                Append(@, [id |-> Len(c.reviews_sentiment) + 1,
                           competitor_id |-> competitor_id, scrape_date |-> scrape_date,
                           scraped_at |-> scraped_at, stars_filter |-> stars,
                           theme |-> t.theme, mention_count |-> t.mention_count,
                           sample_quotes |-> t.sample_quotes])]
        ELSE [c EXCEPT !.reviews_sentiment =
                [i \in 1..Len(@) |->
                    IF i \in hit
                    THEN [@[i] EXCEPT !.mention_count = t.mention_count,
                                      !.sample_quotes = t.sample_quotes,
                                      !.scraped_at = scraped_at]
                    ELSE @[i]]]

RECURSIVE StoreThemes(_, _, _, _, _, _)
StoreThemes(c, competitor_id, scrape_date, scraped_at, stars, themes) ==
    IF themes = <<>> THEN c
    ELSE StoreThemes(StoreTheme(c, competitor_id, scrape_date, scraped_at, stars, Head(themes)),
                     competitor_id, scrape_date, scraped_at, stars, Tail(themes))

\* the end of one iteration of the star-level loop
AfterStar(r) ==
    IF r.pi < Len(STAR_LEVELS) THEN [r EXCEPT !.pi = @ + 1, !.pc = "page"]
    ELSE NextCompetitor(r)

\* scrape_reviews_sentiment, one star level: _fetch returned None
SentimentFetchFail ==
    /\ run.pc = "page" /\ run.name = "reviews_sentiment"
    /\ fetchLog' = LogFetch(run.ci, STAR_LEVELS[run.pi], FALSE, <<>>, fetchLog # <<>>)
    /\ run' = AfterStar(run)
    /\ UNCHANGED <<db, conn, clock, runNo, fetched, orch, dash>>

\* scrape_reviews_sentiment, one star level: the page was fetched; no
\* reviews or no themes (nothing stored), or the themes are stored
SentimentFetchOk ==
    /\ run.pc = "page" /\ run.name = "reviews_sentiment"
    /\ Served
    /\ \E page \in SentimentPages :
         LET reviews == ExtractReviewsFromNextData(page)
         IN  \E answer \in (IF reviews = <<>> THEN {[ollama |-> "not asked", themes |-> <<>>]}
                            ELSE IF run.ollama_ok THEN OllamaAnswers(reviews)
                            ELSE {[ollama |-> "down", themes |-> FallbackThemes(page)]}) :
                /\ IF answer.themes = <<>>
                   THEN conn' = conn /\ run' = AfterStar(run)
                   ELSE /\ conn' = StoreThemes(conn, run.ci, run.scrape_date, run.scraped_at,
                                               STAR_LEVELS[run.pi], answer.themes)
                        /\ run' = [run EXCEPT !.pc = "commit",
                                              !.written = @ \cup NewRows(conn, conn')]
                /\ fetchLog' = LogFetch(run.ci, STAR_LEVELS[run.pi], TRUE,
                                        [page |-> page, ollama |-> answer.ollama],
                                        fetchLog # <<>>)
    /\ UNCHANGED <<db, clock, runNo, orch, dash>>

\* scrape_reviews_sentiment: conn.commit(); any_success = True
SentimentCommit ==
    /\ run.pc = "commit" /\ run.name = "reviews_sentiment"
    /\ db' = conn
    /\ run' = AfterStar([run EXCEPT !.any_success = TRUE])
    /\ UNCHANGED <<conn, clock, runNo, fetchLog, fetched, orch, dash>>

\* ---------------------------------------------------------------- A/B tests
\* A homepage is the frameworks detect_frameworks finds in it, in the order
\* of AB_FRAMEWORK_SIGNATURES, each with its evidence.
AbPlain == <<>>
AbTwoTools == << [tool_name |-> "optimizely", evidence |-> "cdn.optimizely.com"],
                 [tool_name |-> "vwo", evidence |-> "vwo"] >>
AbPages == {AbPlain, AbTwoTools}

\* detect_frameworks
DetectFrameworks(page) == page

\* _store_records: executemany of plain INSERTs
RECURSIVE StoreRecords(_, _)
StoreRecords(c, records) ==
    IF records = <<>> THEN c
    ELSE StoreRecords([c EXCEPT !.ab_tests =
                          Append(@, [id |-> Len(c.ab_tests) + 1, detected |-> 1]
                                       @@ Head(records))],
                      Tail(records))

\* scrape_ab_tests, one competitor: _fetch returned None
AbFetchFail ==
    /\ run.pc = "page" /\ run.name = "ab_tests"
    /\ fetchLog' = LogFetch(run.ci, "", FALSE, <<>>, FALSE)
    /\ run' = NextCompetitor([run EXCEPT !.unreachable = @ \cup {run.ci}])
    /\ UNCHANGED <<db, conn, clock, runNo, fetched, orch, dash>>

\* scrape_ab_tests, one competitor: the homepage was fetched and scanned
AbFetchOk ==
    /\ run.pc = "page" /\ run.name = "ab_tests"
    /\ Served
    /\ \E page \in AbPages :
         LET detections == DetectFrameworks(page)
             records == [i \in 1..Len(detections) |->
                           [competitor_id |-> run.ci, scrape_date |-> run.scrape_date,
                            scraped_at |-> run.scraped_at, page_url |-> PageUrl(run.ci, ""),
                            tool_name |-> detections[i].tool_name,
                            evidence |-> detections[i].evidence]]
         IN  conn' = StoreRecords(conn, records)
    /\ run' = [run EXCEPT !.pc = "commit", !.written = @ \cup NewRows(conn, conn')]
    /\ fetchLog' = LogFetch(run.ci, "", TRUE, <<>>, FALSE)
    /\ UNCHANGED <<db, clock, runNo, orch, dash>>

\* scrape_ab_tests: conn.commit(); any_success = True
AbCommit ==
    /\ run.pc = "commit" /\ run.name = "ab_tests"
    /\ db' = conn
    /\ run' = NextCompetitor([run EXCEPT !.any_success = TRUE])
    /\ UNCHANGED <<conn, clock, runNo, fetchLog, fetched, orch, dash>>

\* ------------------------------------------------------------------ faults
\* a death that loses the uncommitted snapshots and keeps the diffs, as if
\* the diffs were written outside the transaction
CrashKeepsDiffs ==
    /\ run.pc \notin Stopped
    /\ db' = [db EXCEPT !.diffs = conn.diffs]
    /\ conn' = db'
    /\ run' = [run EXCEPT !.pc = "crashed"]
    /\ UNCHANGED <<clock, runNo, fetchLog, fetched, orch, dash>>

\* the process dies in the middle of a scraper: the uncommitted writes of
\* its connection are lost
Crash ==
    /\ run.pc \notin Stopped
    /\ conn' = db
    /\ run' = [run EXCEPT !.pc = "crashed"]
    /\ UNCHANGED <<db, clock, runNo, fetchLog, fetched, orch, dash>>

\* a statement raises sqlite3.Error: the with-block rolls the connection
\* back and the exception leaves the scraper
Raise(r) == [r EXCEPT !.pc = "raised", !.db_error = TRUE]

\* a scraper that logs the error of a store and goes on with the next page
SnapshotStoreErrorSwallowed ==
    /\ run.pc = "page" /\ run.name = "snapshots"
    /\ Served
    /\ run' = AfterPage([run EXCEPT !.db_error = TRUE])
    /\ UNCHANGED <<db, conn, clock, runNo, fetchLog, orch, dash>>

\* scrape_snapshots: the page was fetched, _store_snapshot or the INSERT
\* of _store_diff_if_changed raises
SnapshotStoreError ==
    /\ run.pc = "page" /\ run.name = "snapshots"
    /\ Served
    /\ conn' = db
    /\ run' = Raise(run)
    /\ UNCHANGED <<db, clock, runNo, fetchLog, orch, dash>>

\* a scraper that logs the error of a store and goes on with the next
\* competitor
PricingStoreErrorSkipsCompetitor ==
    /\ run.pc = "store" /\ run.name = "pricing"
    /\ run.best_record # <<>>
    /\ conn' = db
    /\ run' = NextCompetitor([run EXCEPT !.db_error = TRUE])
    /\ fetchLog' = <<>>
    /\ UNCHANGED <<db, clock, runNo, fetched, orch, dash>>

\* scrape_pricing: _store_price_v2 raises
PricingStoreError ==
    /\ run.pc = "store" /\ run.name = "pricing"
    /\ run.best_record # <<>>
    /\ conn' = db
    /\ run' = Raise(run)
    /\ UNCHANGED <<db, clock, runNo, fetchLog, fetched, orch, dash>>

\* scrape_products: _store_product_v2 raises
ProductsStoreError ==
    /\ run.pc = "store" /\ run.name = "products"
    /\ run.html_pages # <<>>
    /\ conn' = db
    /\ run' = Raise(run)
    /\ UNCHANGED <<db, clock, runNo, fetchLog, fetched, orch, dash>>

\* scrape_reviews_trustpilot: the page yields a record, _store_review_record
\* raises
TrustpilotStoreError ==
    /\ run.pc = "page" /\ run.name = "reviews_trustpilot"
    /\ Served
    /\ conn' = db
    /\ run' = Raise(run)
    /\ UNCHANGED <<db, clock, runNo, fetchLog, orch, dash>>

\* scrape_reviews_google: the listing yields a record, _store_review_record
\* raises
GoogleStoreError ==
    /\ run.pc = "page" /\ run.name = "reviews_google"
    /\ Served
    /\ conn' = db
    /\ run' = Raise(run)
    /\ UNCHANGED <<db, clock, runNo, fetchLog, orch, dash>>

\* scrape_reviews_sentiment: the page yields themes, _store_themes raises
SentimentStoreError ==
    /\ run.pc = "page" /\ run.name = "reviews_sentiment"
    /\ Served
    /\ conn' = db
    /\ run' = Raise(run)
    /\ UNCHANGED <<db, clock, runNo, fetchLog, orch, dash>>

\* scrape_ab_tests: the homepage has detections, _store_records raises
AbStoreError ==
    /\ run.pc = "page" /\ run.name = "ab_tests"
    /\ Served
    /\ conn' = db
    /\ run' = Raise(run)
    /\ UNCHANGED <<db, clock, runNo, fetchLog, orch, dash>>

\* ------------------------------------------------------------ orchestrator
SCRAPER_TASKS ==
    << [name |-> "pricing", tables |-> <<"prices">>],
       [name |-> "products", tables |-> <<"products">>],
       [name |-> "snapshots", tables |-> <<"snapshots", "diffs">>],
       [name |-> "reviews_trustpilot", tables |-> <<"reviews_trustpilot">>],
       [name |-> "reviews_google", tables |-> <<"reviews_google">>],
       [name |-> "reviews_sentiment", tables |-> <<"reviews_sentiment">>],
       [name |-> "ab_tests", tables |-> <<"ab_tests">>] >>

\* _rows_for_tables: the sum of the row counts of the tables
RECURSIVE RowsForTables(_, _)
RowsForTables(c, tables) ==
    IF tables = <<>> THEN 0
    ELSE Len(c[Head(tables)]) + RowsForTables(c, Tail(tables))

\* python -m run_daily: run_all_scrapers is called
StartDaily ==
    /\ orch.phase \in {"idle", "done"}
    /\ run.pc \in Stopped
    /\ orch.days < MaxDaily
    /\ orch' = [IdleOrch EXCEPT !.phase = "task", !.ti = 1, !.days = orch.days + 1]
    /\ UNCHANGED <<db, conn, clock, runNo, run, fetchLog, fetched, dash>>

\* run_all_scrapers, one task: before_count, then task.func(db_path)
OrchBeginTask ==
    /\ orch.phase = "task"
    /\ LET task == SCRAPER_TASKS[orch.ti]
       IN  /\ orch' = [orch EXCEPT !.phase = "running",
                                   !.before_count = RowsForTables(db, task.tables),
                                   !.started = Append(@, task.name),
                                   !.db_before = db]
           /\ BeginRun(task.name)
    /\ UNCHANGED <<db, clock, fetched, dash>>

\* an exception of a task that leaves run_all_scrapers
OrchEndTaskPropagates ==
    /\ orch.phase = "running"
    /\ run.pc \in {"returned", "raised"}
    /\ LET task == SCRAPER_TASKS[orch.ti]
           status == IF ~ run.any_success THEN "no_data" ELSE "success"
           after_count == RowsForTables(db, task.tables)
           rows_inserted == IF after_count > orch.before_count
                            THEN after_count - orch.before_count ELSE 0
           result == [name |-> task.name, status |-> status,
                      rows_inserted |-> rows_inserted]
       IN  orch' = IF run.pc = "raised" THEN [orch EXCEPT !.phase = "done"]
                   ELSE [orch EXCEPT !.results = Append(@, result),
                                     !.phase = IF orch.ti < Len(SCRAPER_TASKS)
                                               THEN "task" ELSE "done",
                                     !.ti = IF orch.ti < Len(SCRAPER_TASKS)
                                            THEN @ + 1 ELSE @]
    /\ UNCHANGED <<db, conn, clock, runNo, run, fetchLog, fetched, dash>>

\* run_all_scrapers, one task: the task returned or raised; its status,
\* after_count, rows_inserted and result
OrchEndTask ==
    /\ orch.phase = "running"
    /\ run.pc \in {"returned", "raised"}
    /\ LET task == SCRAPER_TASKS[orch.ti]
           status == IF run.pc = "raised" THEN "failed"
                     ELSE IF ~ run.any_success THEN "no_data" ELSE "success"
           after_count == RowsForTables(db, task.tables)
           rows_inserted == IF after_count > orch.before_count
                            THEN after_count - orch.before_count ELSE 0
           result == [name |-> task.name, status |-> status,
                      rows_inserted |-> rows_inserted]
       IN  orch' = [orch EXCEPT !.results = Append(@, result),
                                !.phase = IF orch.ti < Len(SCRAPER_TASKS)
                                          THEN "task" ELSE "done",
                                !.ti = IF orch.ti < Len(SCRAPER_TASKS)
                                       THEN @ + 1 ELSE @]
    /\ UNCHANGED <<db, conn, clock, runNo, run, fetchLog, fetched, dash>>

\* -------------------------------------------------------------- dashboard
\* _get_password with DASHBOARD_PASSWORD unset
PASSWORD == "changeme"

PUBLIC_ROUTES == {"/login", "/health"}

\* The session cookie of one browser (authenticated: the _AUTH_SESSION_KEY
\* entry), the last request and the response to it (handler: the function
\* that produced it). last_auth is history: "login" after a
\* correct-password login, "logout" once a logout has followed one, "none"
\* before the first.
IdleDash ==
    [authenticated |-> FALSE, last_auth |-> "none",
     request |-> [method |-> "", path |-> "", args |-> <<>>, submitted |-> ""],
     response |-> [handler |-> "", kind |-> "", location |-> "", body |-> <<>>]]

\* a before_request hook that lets every /api route through
RequireAuthApiOpen(path, authenticated) ==
    IF path \in PUBLIC_ROUTES \/ path \in {"/static/app.js"} THEN TRUE
    ELSE IF path \notin {"/", "/logout"} THEN TRUE
    ELSE authenticated

\* require_auth: TRUE when the request goes on to its view, FALSE when the
\* hook answers with the redirect to the login page
RequireAuth(path, authenticated) ==
    IF path \in PUBLIC_ROUTES \/ path \in {"/static/app.js"} THEN TRUE
    ELSE authenticated

\* the answer of require_auth, or of the view
Answer(d, request, view) ==
    IF RequireAuth(request.path, d.authenticated)
    THEN [d EXCEPT !.request = request, !.response = view]
    ELSE [d EXCEPT !.request = request,
                   !.response = [handler |-> "require_auth", kind |-> "redirect",
                                 location |-> "/login", body |-> <<>>]]

\* login: the form, or the submitted password compared with the
\* configured one
Login(method, submitted) ==
    LET request == [method |-> method, path |-> "/login", args |-> <<>>,
                    submitted |-> submitted]
        correct == method = "POST" /\ submitted = PASSWORD
        view == IF correct
                THEN [handler |-> "login", kind |-> "redirect", location |-> "/",
                      body |-> <<>>]
                ELSE [handler |-> "login", kind |-> "page", location |-> "",
                      body |-> <<"login.html",
                                 IF method = "POST" THEN "Incorrect password" ELSE "">>]
    IN  /\ dash' = [Answer(dash, request, view) EXCEPT
                        !.authenticated = IF correct THEN TRUE ELSE @,
                        !.last_auth = IF correct THEN "login" ELSE @]
        /\ UNCHANGED <<db, conn, clock, runNo, run, fetchLog, fetched, orch>>

\* logout: session.pop, the redirect to the login page
Logout ==
    LET request == [method |-> "GET", path |-> "/logout", args |-> <<>>, submitted |-> ""]
        view == [handler |-> "logout", kind |-> "redirect", location |-> "/login",
                 body |-> <<>>]
    IN  /\ dash' = [Answer(dash, request, view) EXCEPT
                        !.authenticated = FALSE,
                        !.last_auth = IF @ = "none" THEN "none" ELSE "logout"]
        /\ UNCHANGED <<db, conn, clock, runNo, run, fetchLog, fetched, orch>>

\* index: the single-page front end
Index ==
    LET request == [method |-> "GET", path |-> "/", args |-> <<>>, submitted |-> ""]
        view == [handler |-> "index", kind |-> "file", location |-> "",
                 body |-> <<"index.html">>]
    IN  /\ dash' = Answer(dash, request, view)
        /\ UNCHANGED <<db, conn, clock, runNo, run, fetchLog, fetched, orch>>

\* a file under /static, served by the framework
StaticFile ==
    LET request == [method |-> "GET", path |-> "/static/app.js", args |-> <<>>,
                    submitted |-> ""]
        view == [handler |-> "static", kind |-> "file", location |-> "",
                 body |-> <<"app.js">>]
    IN  /\ dash' = Answer(dash, request, view)
        /\ UNCHANGED <<db, conn, clock, runNo, run, fetchLog, fetched, orch>>

\* health: the status and the current time
Health ==
    LET request == [method |-> "GET", path |-> "/health", args |-> <<>>, submitted |-> ""]
        view == [handler |-> "health", kind |-> "json", location |-> "",
                 body |-> [status |-> "ok", timestamp |-> clock]]
    IN  /\ dash' = Answer(dash, request, view)
        /\ UNCHANGED <<db, conn, clock, runNo, run, fetchLog, fetched, orch>>

\* The query parameters after _query_param: each is a sequence of zero or
\* one value (None: the empty sequence); a competitor is named by its
\* domain, here its id.
\* _build_filters: the WHERE clause on a row's competitor and date
Selected(args, competitor_id, date_value) ==
    /\ args.competitor # <<>> => competitor_id = args.competitor[1]
    /\ IF args.date # <<>> THEN date_value = args.date[1]
       ELSE /\ args.start_date # <<>> => date_value >= args.start_date[1]
            /\ args.end_date # <<>> => date_value <= args.end_date[1]

\* fetch_prices, fetch_products, fetch_diffs, fetch_ab_tests and each half
\* of fetch_reviews: the rows of the table that pass the filters, with the
\* competitor's domain, the latest date first, then by domain, then the
\* latest id first (the columns are those of the table)
FetchRows(c, table, args) ==
    LET DateOf(row) == IF table = "diffs" THEN row.diff_date ELSE row.scrape_date
        Passes(row) == Selected(args, row.competitor_id, DateOf(row))
        Before(a, b) ==
            \/ DateOf(a) > DateOf(b)
            \/ DateOf(a) = DateOf(b) /\ a.competitor_id < b.competitor_id
            \/ DateOf(a) = DateOf(b) /\ a.competitor_id = b.competitor_id /\ a.id > b.id
        rows == SortSeq(SelectSeq(c[table], Passes), Before)
    IN  [i \in 1..Len(rows) |-> [competitor |-> rows[i].competitor_id] @@ rows[i]]

\* the body of an /api response
Fetch(c, path, args) ==
    IF path = "/api/competitors"
    THEN [id \in Competitors |-> [id |-> id, domain |-> id]]
    ELSE IF path = "/api/reviews"
    THEN [trustpilot |-> FetchRows(c, "reviews_trustpilot", args),
          google |-> FetchRows(c, "reviews_google", args)]
    ELSE FetchRows(c, CASE path = "/api/prices" -> "prices_v2"
                        [] path = "/api/products" -> "products_v2"
                        [] path = "/api/diffs" -> "diffs"
                        [] path = "/api/ab-tests" -> "ab_tests",
                   args)

\* a handler that also clears what it has reported
ApiGetPurging(path, args) ==
    LET request == [method |-> "GET", path |-> path, args |-> args, submitted |-> ""]
        view == [handler |-> "api", kind |-> "json", location |-> "",
                 body |-> Fetch(db, path, args)]
    IN  /\ dash' = Answer(dash, request, view)
        /\ db' = IF RequireAuth(path, dash.authenticated) /\ path = "/api/reviews"
                 THEN [db EXCEPT !.reviews_trustpilot = <<>>] ELSE db
        /\ UNCHANGED <<conn, clock, runNo, run, fetchLog, fetched, orch>>

\* api_prices, api_products, api_reviews, api_diffs, api_ab_tests,
\* api_competitors: the store's query on its own connection to the
\* committed database
ApiGet(path, args) ==
    LET request == [method |-> "GET", path |-> path, args |-> args, submitted |-> ""]
        view == [handler |-> "api", kind |-> "json", location |-> "",
                 body |-> Fetch(db, path, args)]
    IN  /\ dash' = Answer(dash, request, view)
        /\ UNCHANGED <<db, conn, clock, runNo, run, fetchLog, fetched, orch>>

\* ------------------------------------------------------------ environment
\* midnight UTC passes
Tick ==
    /\ clock < MaxDay
    /\ clock' = clock + 1
    /\ UNCHANGED <<db, conn, runNo, run, fetchLog, fetched, orch, dash>>

\* ------------------------------------------------------------ specification
Init ==
    /\ db = EmptyDb
    /\ conn = EmptyDb
    /\ clock = 1
    /\ runNo = 0
    /\ run = IdleRun
    /\ fetchLog = <<>>
    /\ fetched = 0
    /\ orch = IdleOrch
    /\ dash = IdleDash

Next ==
    \/ StartSnapshots
    \/ SnapshotFetchFail
    \/ SnapshotFetchOk
    \/ SnapshotCommit
    \/ ScraperReturn

Spec == Init /\ [][Next]_vars

\* snapshot runs on a database that earlier runs have left: up to
\* MaxEarlier snapshots of any partitions, in any order (a run stores the
\* pages it could fetch), stored as scrape_snapshots stores them; their
\* scraped_at is written 0
EarlierFetches ==
    UNION { [1..n -> [competitor_id : Competitors, path : 1..Len(SNAPSHOT_PATHS),
                      html : {<<NodeA>>, <<NodeA, NodePlus>>}]] : n \in 0..MaxEarlier }

RECURSIVE Replay(_, _)
Replay(c, fetches) ==
    IF fetches = <<>> THEN c
    ELSE LET f == Head(fetches)
             pt == SNAPSHOT_PATHS[f.path]
             snapshot == ToSnapshotRecord(f.competitor_id, pt.page_type,
                                          PageUrl(f.competitor_id, pt.path),
                                          f.html, 1, 0)
             snapshot_id == NextSnapshotId(c)
         IN  Replay(StoreDiffIfChanged(StoreSnapshot(c, snapshot), snapshot_id, snapshot),
                    Tail(fetches))

InitDiff ==
    /\ \E fetches \in EarlierFetches : db = Replay(EmptyDb, fetches)
    /\ conn = db
    /\ clock = 1
    /\ runNo = 0
    /\ run = IdleRun
    /\ fetchLog = <<>>
    /\ fetched = 0
    /\ orch = IdleOrch
    /\ dash = IdleDash

SpecDiff == InitDiff /\ [][Next]_vars

\* the v2 price and product extractors, run from the command line on one
\* day or another
NextV2 ==
    \/ StartPricing
    \/ PricingFetchFail
    \/ PricingFetchOk
    \/ PricingNoRecord
    \/ PricingStore
    \/ PricingCommit
    \/ StartProducts
    \/ ProductsFetchFail
    \/ ProductsFetchOk
    \/ ProductsSkip
    \/ ProductsStore
    \/ ProductsCommit
    \/ ScraperReturn
    \/ Tick

SpecV2 == Init /\ [][NextV2]_vars

\* the three extractors run from the command line, the process dying at
\* any point
NextCrash ==
    \/ StartSnapshots
    \/ SnapshotFetchFail
    \/ SnapshotFetchOk
    \/ SnapshotCommit
    \/ StartPricing
    \/ PricingFetchFail
    \/ PricingFetchOk
    \/ PricingNoRecord
    \/ PricingStore
    \/ PricingCommit
    \/ StartProducts
    \/ ProductsFetchFail
    \/ ProductsFetchOk
    \/ ProductsSkip
    \/ ProductsStore
    \/ ProductsCommit
    \/ ScraperReturn
    \/ Crash

SpecCrash == Init /\ [][NextCrash]_vars

\* one daily run of the orchestrator, the database refusing a statement at
\* any store
NextDaily ==
    \/ StartDaily
    \/ OrchBeginTask
    \/ OrchEndTask
    \/ PricingFetchFail
    \/ PricingFetchOk
    \/ PricingNoRecord
    \/ PricingStore
    \/ PricingCommit
    \/ PricingStoreError
    \/ ProductsFetchFail
    \/ ProductsFetchOk
    \/ ProductsSkip
    \/ ProductsStore
    \/ ProductsCommit
    \/ ProductsStoreError
    \/ SnapshotFetchFail
    \/ SnapshotFetchOk
    \/ SnapshotCommit
    \/ SnapshotStoreError
    \/ TrustpilotFetchFail
    \/ TrustpilotFetchOk
    \/ TrustpilotCommit
    \/ GoogleFetchFail
    \/ GoogleFetchOk
    \/ GoogleCommit
    \/ SentimentFetchFail
    \/ SentimentFetchOk
    \/ SentimentCommit
    \/ AbFetchFail
    \/ AbFetchOk
    \/ AbCommit
    \/ TrustpilotStoreError
    \/ GoogleStoreError
    \/ SentimentStoreError
    \/ AbStoreError
    \/ ScraperReturn

SpecDaily == Init /\ [][NextDaily]_vars

\* the daily run with the UTC date changing while it is in progress
NextDailyClock ==
    \/ NextDaily
    \/ Tick

SpecDailyClock == Init /\ [][NextDailyClock]_vars

\* extract_pricing_v2 called on one page: the price-bearing text nodes of
\* the page, in document order, are any sequence of at most MaxNodes nodes:
\* short hero copy, copy of exactly MAX_TEXT_LENGTH characters, a hydration
\* script, a text one character too long, an add-on delta
PriceNodes ==
    { TextNode(12, FALSE, FALSE, 14, <<>>),
      TextNode(MAX_TEXT_LENGTH, FALSE, FALSE, 9, <<>>),
      TextNode(28, TRUE, FALSE, 5, <<>>),
      TextNode(MAX_TEXT_LENGTH + 1, FALSE, FALSE, 7, <<>>),
      TextNode(16, FALSE, TRUE, 3, << [name |-> "Round Trip", price |-> 3] >>) }

ExtractInputs ==
    { [next_data |-> <<>>, texts |-> texts] :
        texts \in UNION { [1..n -> PriceNodes] : n \in 0..MaxNodes } }

InitExtract ==
    /\ db = EmptyDb
    /\ conn = EmptyDb
    /\ clock = 1
    /\ runNo = 1
    /\ run = [IdleRun EXCEPT !.pc = "page", !.name = "extract_pricing_v2",
                             !.ci = 1, !.pi = 1, !.scrape_date = 1, !.scraped_at = 1]
    /\ \E page \in ExtractInputs :
          fetchLog = << [competitor_id |-> 1, path |-> "", ok |-> TRUE, html |-> page,
                         slept |-> FALSE] >>
    /\ fetched = 1
    /\ orch = IdleOrch
    /\ dash = IdleDash

ExtractPricingV2Call ==
    /\ run.pc = "page" /\ run.name = "extract_pricing_v2"
    /\ run' = [run EXCEPT !.pc = "returned",
                          !.best_record =
                              ExtractPricingV2(run.ci, fetchLog[1].html,
                                               PageUrl(run.ci, fetchLog[1].path),
                                               run.scrape_date, run.scraped_at)]
    /\ UNCHANGED <<db, conn, clock, runNo, fetchLog, fetched, orch, dash>>

NextExtract ==
    \/ ExtractPricingV2Call

SpecExtract == InitExtract /\ [][NextExtract]_vars

\* ------------------------------------------------- __NEXT_DATA__ searches
\* A parsed __NEXT_DATA__ payload is a chain of nested containers: levels[1]
\* is the root, levels[i + 1] the container value held by levels[i], so
\* that levels[i] lies at depth i - 1. A dict carries its named keys, an
\* absent key being the empty sequence, an absent distribution the empty
\* function, and its "reviews" key the texts of the listed review dicts.
MaxNesting == 18
DEPTH_CAP == 15

\* payloads of every nesting depth up to MaxNesting, with one dict or two
\* dicts carrying the named keys, at every pair of depths
SearchInputs ==
    LET Plain(i) == [dict |-> i % 2 = 1, trustScore |-> <<>>, numberOfReviews |-> <<>>,
                     distribution |-> NoDistribution, reviews |-> <<>>]
        Outer == [dict |-> TRUE, trustScore |-> <<4>>, numberOfReviews |-> <<12>>,
                  distribution |-> (5 :> 9), reviews |-> <<"slow refund again">>]
        Inner == [dict |-> TRUE, trustScore |-> <<3>>, numberOfReviews |-> <<10>>,
                  distribution |-> (5 :> 7 @@ 1 :> 3), reviews |-> <<"very slow refund">>]
    IN  { [i \in 1..n |-> IF i = k1 THEN Outer ELSE IF i = k2 THEN Inner ELSE Plain(i)] :
            <<n, k1, k2>> \in { t \in (1..MaxNesting) \X (1..MaxNesting) \X (1..MaxNesting) :
                                  t[2] <= t[3] /\ t[3] <= t[1] } }

\* _search of _extract_nextjs_data, from levels[i] down: the first
\* trustScore and numberOfReviews met, every distribution entry met, a
\* later one replacing an earlier one of the same star
RECURSIVE NextjsSearch(_, _, _)
NextjsSearch(levels, i, acc) ==
    IF i > Len(levels) THEN acc
    ELSE LET obj == levels[i]
             met == [rating |-> IF acc.rating = <<>> THEN obj.trustScore ELSE acc.rating,
                     count |-> IF acc.count = <<>> THEN obj.numberOfReviews ELSE acc.count,
                     distribution |-> obj.distribution @@ acc.distribution]
         IN  NextjsSearch(levels, i + 1, IF obj.dict THEN met ELSE acc)

\* _search of _extract_reviews_from_next_data, from levels[i] at the given
\* depth down: the texts of every "reviews" key met, nothing below the cap
RECURSIVE ReviewsSearch(_, _, _, _)
ReviewsSearch(levels, i, depth, texts) ==
    IF i > Len(levels) \/ depth > DEPTH_CAP THEN texts
    ELSE LET obj == levels[i]
         IN  ReviewsSearch(levels, i + 1, depth + 1,
                           IF obj.dict THEN texts \o obj.reviews ELSE texts)

InitSearch ==
    /\ db = EmptyDb
    /\ conn = EmptyDb
    /\ clock = 1
    /\ runNo = 1
    /\ run = [IdleRun EXCEPT !.pc = "page", !.name = "next_data",
                             !.ci = 1, !.pi = 1, !.scrape_date = 1, !.scraped_at = 1]
    /\ \E payload \in SearchInputs :
          fetchLog = << [competitor_id |-> 1, path |-> "trustpilot", ok |-> TRUE,
                         html |-> payload, slept |-> FALSE] >>
    /\ fetched = 1
    /\ orch = IdleOrch
    /\ dash = IdleDash

\* _extract_nextjs_data(soup) of a page whose __NEXT_DATA__ script parses
ExtractNextjsData ==
    /\ run.pc = "page" /\ run.name = "next_data"
    /\ run' = [run EXCEPT !.pc = "returned", !.name = "extract_nextjs_data",
                          !.best_record =
                              NextjsSearch(fetchLog[1].html, 1,
                                           [rating |-> <<>>, count |-> <<>>,
                                            distribution |-> NoDistribution])]
    /\ UNCHANGED <<db, conn, clock, runNo, fetchLog, fetched, orch, dash>>

\* _extract_reviews_from_next_data(html) of such a page
ExtractReviewsFromNextDataCall ==
    /\ run.pc = "page" /\ run.name = "next_data"
    /\ run' = [run EXCEPT !.pc = "returned", !.name = "extract_reviews_from_next_data",
                          !.best_record = ReviewsSearch(fetchLog[1].html, 1, 0, <<>>)]
    /\ UNCHANGED <<db, conn, clock, runNo, fetchLog, fetched, orch, dash>>

NextSearch ==
    \/ ExtractNextjsData
    \/ ExtractReviewsFromNextDataCall

SpecSearch == InitSearch /\ [][NextSearch]_vars

\* one browser session of the dashboard: the right, a wrong or no password
\* submitted, logouts, and requests of every route, the /api routes with
\* every combination of present and absent filters
API_PATHS == {"/api/prices", "/api/products", "/api/reviews", "/api/diffs",
              "/api/ab-tests", "/api/competitors"}

QueryArgs ==
    [competitor : {<<>>, <<1>>}, date : {<<>>, <<1>>},
     start_date : {<<>>, <<1>>}, end_date : {<<>>, <<1>>}]

NextAuth ==
    \/ \E method \in {"GET", "POST"}, submitted \in {PASSWORD, "letmein", ""} :
          Login(method, submitted)
    \/ Logout
    \/ Index
    \/ StaticFile
    \/ Health
    \/ \E path \in API_PATHS, args \in QueryArgs : ApiGet(path, args)

SpecAuth == Init /\ [][NextAuth]_vars

\* the dashboard of a logged-in browser beside the Trustpilot scraper
NextDashboard ==
    \/ Login("POST", PASSWORD)
    \/ Health
    \/ \E path \in API_PATHS, args \in QueryArgs : ApiGet(path, args)
    \/ StartTrustpilot
    \/ TrustpilotFetchFail
    \/ TrustpilotFetchOk
    \/ TrustpilotCommit
    \/ ScraperReturn

SpecDashboard == Init /\ [][NextDashboard]_vars

\* the review theme scraper run from the command line
NextSentiment ==
    \/ StartSentiment
    \/ SentimentFetchFail
    \/ SentimentFetchOk
    \/ SentimentCommit
    \/ ScraperReturn

SpecSentiment == Init /\ [][NextSentiment]_vars

\* snapshot runs on a database that earlier runs have left, the database
\* refusing a statement at any store and the process dying at any point
NextSnapshotFaults ==
    \/ Next
    \/ SnapshotStoreError
    \/ Crash

SpecSnapshotFaults == InitDiff /\ [][NextSnapshotFaults]_vars

\* the two review scrapers run from the command line, on one day or
\* another
NextReviews ==
    \/ StartTrustpilot
    \/ TrustpilotFetchFail
    \/ TrustpilotFetchOk
    \/ TrustpilotCommit
    \/ StartGoogle
    \/ GoogleFetchFail
    \/ GoogleFetchOk
    \/ GoogleCommit
    \/ ScraperReturn
    \/ Tick

SpecReviews == Init /\ [][NextReviews]_vars

\* ------------------------------------------------------ reading the tables
SnapshotRows(c) == { c.snapshots[i] : i \in 1..Len(c.snapshots) }
DiffRows(c) == { c.diffs[i] : i \in 1..Len(c.diffs) }

SamePartition(s, t) ==
    s.competitor_id = t.competitor_id /\ s.page_type = t.page_type

\* p is the snapshot stored just before s in the partition of s
ImmediatelyPrecedes(c, p, s) ==
    /\ SamePartition(p, s)
    /\ p.id < s.id
    /\ ~ \E q \in SnapshotRows(c) : SamePartition(q, s) /\ p.id < q.id /\ q.id < s.id

DiffCountsOf(p, s) ==
    CountDiffChanges(BuildUnifiedDiff(p.html_content, s.html_content,
                                      SnapshotLabel(p.id), SnapshotLabel(s.id)))

HasDiffRow(c, s) == \E d \in DiffRows(c) : d.current_snapshot_id = s.id

\* the fetches of the running scraper that succeeded
OkFetches == { k \in 1..Len(fetchLog) : fetchLog[k].ok }

PageTypeOfPath(path) ==
    (CHOOSE i \in 1..Len(SNAPSHOT_PATHS) : SNAPSHOT_PATHS[i].path = path) 

\* the snapshot rows the running scraper stored for a fetch of its log
RowsOfFetch(c, e) ==
    { s \in SnapshotRows(c) :
        /\ s.scraped_at = run.scraped_at
        /\ s.competitor_id = e.competitor_id
        /\ s.page_type = SNAPSHOT_PATHS[PageTypeOfPath(e.path)].page_type }

IsPrefix(s, t) == Len(s) <= Len(t) /\ SubSeq(t, 1, Len(s)) = s

\* ------------------------------------------------------------------ claims

\* C2: in the committed database and in the connection's view, a snapshot
\* has a Diff row iff a snapshot precedes it in its (competitor, page_type)
\* partition and the diff against that one counts at least one addition or
\* removal; every Diff row has counts >= 0 that are not both zero and
\* belongs to a stored snapshot; a partition's first snapshot has none.
C2_DiffRowIffCounted ==
    \A c \in {db, conn} :
        /\ \A s \in SnapshotRows(c) :
              HasDiffRow(c, s) <=>
                 \E p \in SnapshotRows(c) :
                    /\ ImmediatelyPrecedes(c, p, s)
                    /\ DiffCountsOf(p, s).additions + DiffCountsOf(p, s).removals > 0
        /\ \A d \in DiffRows(c) :
              /\ d.additions_count >= 0
              /\ d.removals_count >= 0
              /\ d.additions_count + d.removals_count > 0
              /\ \E s \in SnapshotRows(c) : s.id = d.current_snapshot_id
        /\ \A s \in SnapshotRows(c) :
              (~ \E p \in SnapshotRows(c) : SamePartition(p, s) /\ p.id < s.id)
                 => ~ HasDiffRow(c, s)

\* C2 witness: committed, a partition holds its first snapshot without a
\* Diff row and a changed second one with its Diff row
C2_Witness ==
    \E p, s \in SnapshotRows(db) :
        /\ ImmediatelyPrecedes(db, p, s)
        /\ ~ HasDiffRow(db, p) /\ HasDiffRow(db, s)

\* the number of snapshots of a partition
PartitionCount(c, competitor_id, page_type) ==
    Cardinality({ s \in SnapshotRows(c) :
                    s.competitor_id = competitor_id /\ s.page_type = page_type })

\* this step is a successful fetch of the partition
FetchedNow(competitor_id, page_type) ==
    /\ fetched' = fetched + 1
    /\ run.name = "snapshots"
    /\ run.ci = competitor_id
    /\ SNAPSHOT_PATHS[run.pi].page_type = page_type

\* C3: every step leaves the stored Snapshot rows as they are (committed
\* and uncommitted); a successful fetch adds exactly one snapshot to its
\* partition and no other step adds any; and the running snapshot scraper
\* holds exactly one row per successful fetch, with the fetched content,
\* identical or not to the partition's previous snapshot.
C3_OneRowPerFetch ==
    run.name = "snapshots" =>
        /\ \A k \in OkFetches :
              \E s \in RowsOfFetch(conn, fetchLog[k]) :
                 /\ RowsOfFetch(conn, fetchLog[k]) = {s}
                 /\ s.html_content = fetchLog[k].html
        /\ Cardinality({ s \in SnapshotRows(conn) : s.scraped_at = run.scraped_at })
              = Cardinality(OkFetches)

C3_SnapshotsAppendOnly ==
    [][ /\ IsPrefix(db.snapshots, db'.snapshots)
        /\ IsPrefix(conn.snapshots, conn'.snapshots)
        /\ \A c \in Competitors : \A i \in 1..Len(SNAPSHOT_PATHS) :
              LET page_type == SNAPSHOT_PATHS[i].page_type
              IN  PartitionCount(conn', c, page_type) =
                     PartitionCount(conn, c, page_type)
                        + (IF FetchedNow(c, page_type) THEN 1 ELSE 0)
        /\ C3_OneRowPerFetch' ]_vars

\* C3 witness: a fetch returned the content the partition's previous
\* snapshot already has, and both rows are committed
C3_Witness ==
    \E p, s \in SnapshotRows(db) :
        /\ ImmediatelyPrecedes(db, p, s)
        /\ p.html_content = s.html_content
        /\ p.content_hash = s.content_hash

\* the normalized lines of two documents differ in exactly one line: one
\* line replaced, or one line added or removed
DropLine(lines, i) == SubSeq(lines, 1, i - 1) \o SubSeq(lines, i + 1, Len(lines))

DifferInOneLine(a, b) ==
    \/ /\ Len(a) = Len(b)
       /\ Cardinality({ i \in 1..Len(a) : a[i] # b[i] }) = 1
    \/ /\ Len(b) = Len(a) + 1
       /\ \E i \in 1..Len(b) : DropLine(b, i) = a
    \/ /\ Len(a) = Len(b) + 1
       /\ \E i \in 1..Len(a) : DropLine(a, i) = b

\* C4: consecutive snapshots of a partition whose normalized text differs
\* in exactly one line have a Diff row naming both ids in order, with
\* additions_count + removals_count > 0.
C4_OneLineChangeHasDiff ==
    \A p, s \in SnapshotRows(db) :
        ( /\ ImmediatelyPrecedes(db, p, s)
          /\ DifferInOneLine(NormalizeForDiff(p.html_content),
                             NormalizeForDiff(s.html_content)) )
        => \E d \in DiffRows(db) :
              /\ d.previous_snapshot_id = p.id
              /\ d.current_snapshot_id = s.id
              /\ d.additions_count + d.removals_count > 0

\* the words of a text node with every date/time stamp read as the same
Masked(text) ==
    [i \in 1..Len(text) |-> IF text[i] \in TimestampSyms THEN "T" ELSE text[i]]

NodeWords(html) ==
    SelectSeq([i \in 1..Len(html) |-> SplitWords(Masked(html[i]))], NonEmpty)

\* two documents differ, and only in date/time stamps and in whitespace
DifferOnlyInStampsAndSpace(h1, h2) ==
    h1 # h2 /\ NodeWords(h1) = NodeWords(h2)

C6_FailureSkipsOnePage ==
    (run.name = "snapshots" /\ run.pc = "returned") =>
        /\ Len(fetchLog) = NumCompetitors * Len(SNAPSHOT_PATHS)
        /\ \A c \in Competitors : \A i \in 1..Len(SNAPSHOT_PATHS) :
              LET e == fetchLog[(c - 1) * Len(SNAPSHOT_PATHS) + i]
              IN  /\ e.competitor_id = c
                  /\ e.path = SNAPSHOT_PATHS[i].path
                  /\ e.ok => \E s \in RowsOfFetch(db, e) : s.html_content = e.html
        /\ db = conn

\* C6 witness: a returned run whose first fetch failed, while the other
\* page type of that competitor and a page of a later competitor were stored
C6_Witness ==
    /\ run.name = "snapshots" /\ run.pc = "returned"
    /\ ~ fetchLog[1].ok
    /\ fetchLog[2].ok
    /\ \E k \in OkFetches : fetchLog[k].competitor_id > 1

\* the rows of a v2 table without their ids
V2Tables == { [table |-> "prices_v2", stored |-> "stored_prices"],
              [table |-> "products_v2", stored |-> "stored_products"] }

Unkeyed(row) == [f \in DOMAIN row \ {"id"} |-> row[f]]

\* position k holds the last record stored under its key
IsLatestStored(hist, k) ==
    ~ \E k2 \in (k + 1)..Len(hist) : SameKey(hist[k2], hist[k])

\* C1: in prices_v2 and products_v2, committed or not, no two rows share
\* (competitor_id, scrape_date), and the row of a key is the record of the
\* latest store under that key, however many runs stored one.
C1_OneRowPerCompetitorDate ==
    \A c \in {db, conn} : \A t \in V2Tables :
        LET rows == c[t.table]
            hist == c[t.stored]
        IN  /\ \A i, j \in 1..Len(rows) : SameKey(rows[i], rows[j]) => i = j
            /\ \A i, j \in 1..Len(rows) : rows[i].id = rows[j].id => i = j
            /\ \A k \in 1..Len(hist) :
                  IsLatestStored(hist, k) =>
                     \E i \in 1..Len(rows) : Unkeyed(rows[i]) = hist[k]
            /\ \A i \in 1..Len(rows) :
                  \E k \in 1..Len(hist) :
                     IsLatestStored(hist, k) /\ Unkeyed(rows[i]) = hist[k]

\* C1 witness: two runs of one day stored different prices for a competitor,
\* and the committed table holds the later one alone
C1_Witness ==
    \E k1, k2 \in 1..Len(db.stored_prices) :
        /\ k1 < k2
        /\ SameKey(db.stored_prices[k1], db.stored_prices[k2])
        /\ db.stored_prices[k1].main_price # db.stored_prices[k2].main_price
        /\ \E i \in 1..Len(db.prices_v2) :
              Unkeyed(db.prices_v2[i]) = db.stored_prices[k2]

\* the table a pricing or products run stores into
TableOfRun(name) == IF name = "pricing" THEN "prices_v2" ELSE "products_v2"

\* C7: a pricing or products run never ends in an exception on account of
\* failed fetches; once its loop is over every competitor was processed;
\* and the value it returns is True iff the run stored a record, False
\* when every fetch failed.
C7_TimeoutsNeverRaise ==
    run.name \in {"pricing", "products"} =>
        /\ run.pc # "raised"
        /\ run.pc \in {"exit", "returned"} =>
              /\ run.visited = Competitors
              /\ run.completed = Competitors
              /\ run.unreachable = Competitors => ~ run.any_success
              /\ run.any_success <=>
                    \E row \in TableRows(conn, TableOfRun(run.name)) :
                       row.scraped_at = run.scraped_at
        /\ run.pc = "returned" =>
              (run.any_success <=>
                  \E row \in TableRows(db, TableOfRun(run.name)) :
                     row.scraped_at = run.scraped_at)

\* C7 witness: a returned pricing run; every URL of the first competitor
\* failed, a later competitor has its record
C7_Witness ==
    /\ run.name = "pricing" /\ run.pc = "returned"
    /\ 1 \in run.unreachable
    /\ run.any_success
    /\ \E row \in TableRows(db, "prices_v2") :
          row.scraped_at = run.scraped_at /\ row.competitor_id > 1

\* C10: after a crash, every row the run wrote for a competitor whose
\* iteration had ended is committed, and every row it wrote that is lost
\* belongs to the one competitor in progress.
C10_CrashLosesOnlyInFlight ==
    run.pc = "crashed" =>
        \A w \in run.written :
            /\ w.row.competitor_id \in run.completed
                  => w.row \in TableRows(db, w.table)
            /\ w.row \notin TableRows(db, w.table)
                  => (w.row.competitor_id = run.ci /\ run.ci \notin run.completed)

\* C10 witness: a crash lost a row of the competitor in progress, and a row
\* of an earlier competitor of the same run is committed
C10_Witness ==
    /\ run.pc = "crashed"
    /\ \E w \in run.written : w.row \notin TableRows(db, w.table)
    /\ \E w \in run.written :
          w.row.competitor_id \in run.completed /\ w.row \in TableRows(db, w.table)

\* the names of the first n tasks of the task table
TaskNames(n) == [i \in 1..n |-> SCRAPER_TASKS[i].name]

\* the outcome of the task that just ended, as its result states it
LastResultMatchesOutcome ==
    LET n == Len(orch.results)
        result == orch.results[n]
    IN  /\ result.name = run.name
        /\ result.status \in {"failed", "no_data", "success"}
        /\ result.status = "failed" <=> run.pc = "raised"
        /\ result.status = "no_data" <=> (run.pc = "returned" /\ ~ run.any_success)

C8_ResultsFollowTable ==
    LET n == Len(orch.results)
    IN  /\ n <= Len(SCRAPER_TASKS)
        /\ [i \in 1..n |-> orch.results[i].name] = TaskNames(n)
        /\ orch.started = TaskNames(IF orch.phase = "running" THEN n + 1 ELSE n)
        /\ orch.phase = "done" => n = Len(SCRAPER_TASKS)
        /\ (orch.phase \in {"task", "done"} /\ n > 0) => LastResultMatchesOutcome

\* C8: in a daily run the tasks are called once each in table order and the
\* results follow in that order, a result once appended staying as it is;
\* the status of a result is failed iff its task raised, no_data iff it
\* returned a falsy value, success otherwise; the run ends with one result
\* per task whatever tasks raised.
C8_EveryTaskOnceInOrder ==
    [][ /\ IsPrefix(orch.results, orch'.results) \/ orch'.results = <<>>
        /\ C8_ResultsFollowTable' ]_vars

\* C8 witness: a finished daily run in which a task failed and a later task
\* succeeded
C8_Witness ==
    /\ orch.phase = "done"
    /\ \E i, j \in 1..Len(orch.results) :
          /\ i < j
          /\ orch.results[i].status = "failed"
          /\ orch.results[j].status = "success"

\* the tables the task that just ended wrote rows into, and the growth of
\* their row counts since the task was called
TablesWritten == { w.table : w \in run.written }

RECURSIVE Growth(_)
Growth(tables) ==
    IF tables = {} THEN 0
    ELSE LET t == CHOOSE x \in tables : TRUE
         IN  (Len(db[t]) - Len(orch.db_before[t])) + Growth(tables \ {t})

\* C9: the rows_inserted of a result equals the number of rows its task
\* added to the tables it writes.
C9_RowsInsertedCountsWrites ==
    (orch.phase \in {"task", "done"} /\ orch.results # <<>>) =>
        orch.results[Len(orch.results)].rows_inserted = Growth(TablesWritten)

\* C11: in a daily run, a run in which a store raised a database error has
\* ended with the exception (it went on to no further page or competitor);
\* the orchestrator gives that task of the daily run the status failed; and whatever tasks
\* failed, the next task of the table is pending after each of them and the
\* daily run ends only after every task was called.
C11_StoreErrorFailsTaskOnly ==
    LET n == Len(orch.results)
    IN  /\ run.db_error => run.pc = "raised"
        /\ (run.db_error /\ orch.phase \in {"task", "done"} /\ orch.started # <<>>) =>
              /\ n > 0
              /\ orch.results[n].name = run.name
              /\ orch.results[n].status = "failed"
        /\ (orch.phase = "task" /\ n > 0 /\ orch.results[n].status = "failed") =>
              (orch.ti = n + 1 /\ orch.ti <= Len(SCRAPER_TASKS))
        /\ orch.phase = "done" =>
              /\ Len(orch.started) = Len(SCRAPER_TASKS)
              /\ \A i \in 1..Len(SCRAPER_TASKS) : orch.started[i] = SCRAPER_TASKS[i].name

\* C11 witness: a finished daily run whose snapshots task failed on a store,
\* the last task having run and returned after it
C11_Witness ==
    /\ orch.phase = "done"
    /\ Len(orch.results) = Len(SCRAPER_TASKS)
    /\ orch.results[3].name = "snapshots" /\ orch.results[3].status = "failed"
    /\ run.name = "ab_tests" /\ run.pc = "returned"

\* the committed rows of the scraper tables stored by the runs of the
\* current daily run (its tasks are the last Len(orch.started) runs)
DailyRunRows ==
    { row \in UNION { TableRows(db, t) : t \in WrittenTableNames } :
        row.scraped_at > runNo - Len(orch.started) }

\* C12: the records persisted during one daily run all carry the same
\* scrape_date, also when the date changes while the run is in progress.
C12_OneDatePerDailyRun ==
    orch.phase # "idle" =>
        \A r1, r2 \in DailyRunRows : r1.scrape_date = r2.scrape_date

\* the committed products_v2 rows the running scraper stored for a competitor
ProductRowsOfRun(competitor_id) ==
    { row \in TableRows(db, "products_v2") :
        row.scraped_at = run.scraped_at /\ row.competitor_id = competitor_id }

\* C13 as stated: a returned products run has persisted exactly one record
\* for each competitor, whatever its fetches did.
C13_OneRecordPerCompetitor ==
    (run.name = "products" /\ run.pc = "returned") =>
        \A c \in Competitors : Cardinality(ProductRowsOfRun(c)) = 1

\* C13 amended: a returned products run has persisted exactly one record
\* for each competitor of which at least one candidate path was fetched,
\* and none for a competitor whose every fetch failed.
C13_OneRecordPerFetchedCompetitor ==
    (run.name = "products" /\ run.pc = "returned") =>
        \A c \in Competitors :
            Cardinality(ProductRowsOfRun(c)) = IF c \in run.unreachable THEN 0 ELSE 1

\* C13 witness: a returned products run; every fetch of the first competitor
\* failed, the second has its record from the second path after the first
\* path failed
C13_Witness ==
    /\ run.name = "products" /\ run.pc = "returned"
    /\ 1 \in run.unreachable
    /\ \E row \in ProductRowsOfRun(2) : row.source_url = <<PageUrl(2, PRODUCT_PATHS[2])>>

\* the offered flag of a category in a products_v2 row
OfferedFlag(row, cat) ==
    CASE cat = "one_way" -> row.one_way_offered
      [] cat = "round_trip" -> row.round_trip_offered
      [] cat = "hotel" -> row.hotel_offered
      [] cat = "visa_letter" -> row.visa_letter_offered

\* the record the running products scraper has just stored for its competitor
StoredProductRows ==
    { row \in TableRows(conn, "products_v2") :
        row.scraped_at = run.scraped_at /\ row.competitor_id = run.ci }

\* C14: when the products scraper has stored the merged record of a
\* competitor, the offered flag of each of the four categories is true if
\* and only if at least one fetched page of that competitor, in any position,
\* contains a keyword of the category; a failed fetch contributes nothing.
C14_OfferedIffSomeFetchedPage ==
    (run.name = "products" /\ run.pc = "commit") =>
        /\ StoredProductRows # {}
        /\ \A row \in StoredProductRows : \A cat \in Categories :
              OfferedFlag(row, cat) <=>
                  \E k \in 1..Len(fetchLog) :
                      /\ fetchLog[k].ok
                      /\ fetchLog[k].competitor_id = run.ci
                      /\ fetchLog[k].html.keywords \cap KEYWORDS[cat] # {}

\* C14 witness: two pages fetched for one competitor; only the second has
\* a round-trip keyword and the stored record offers round trips
C14_Witness ==
    /\ run.name = "products" /\ run.pc = "commit"
    /\ \E i, j \in 1..Len(fetchLog) :
          /\ i < j
          /\ fetchLog[i].ok /\ fetchLog[i].html = ProdTicket
          /\ fetchLog[j].ok /\ fetchLog[j].html = ProdPriced
    /\ \E row \in StoredProductRows : row.round_trip_offered /\ row.hotel_offered

ReviewTables == {"reviews_trustpilot", "reviews_google"}

\* the step fetched the review page of the competitor for the table
ReviewFetchedNow(table) ==
    /\ run.name = table /\ run.pc = "page"
    /\ Len(fetchLog') = Len(fetchLog) + 1
    /\ fetchLog'[Len(fetchLog')].ok

\* the page holds a rating, a review count or a star distribution for some
\* strategy of the extractor
YieldsSignal(table, page) ==
    IF table = "reviews_trustpilot"
    THEN \/ page.next_data.rating # <<>> \/ page.next_data.count # <<>>
         \/ DOMAIN page.next_data.distribution # {}
         \/ page.ld_json.rating # <<>> \/ page.ld_json.count # <<>>
         \/ DOMAIN page.json_blob # {} \/ DOMAIN page.text # {}
    ELSE \E strategy \in {"ld_json", "itemprop", "text"} :
            page[strategy].rating # <<>> \/ page[strategy].count # <<>>

ReviewRowsOn(c, table, competitor_id, scrape_date) ==
    { row \in TableRows(c, table) :
        row.competitor_id = competitor_id /\ row.scrape_date = scrape_date }

\* C15: the two review tables only grow at their end, in the committed
\* database and in the connection's view; a step that fetches a competitor's
\* review page adds exactly one row for (competitor, scrape_date) when the
\* page yields a signal, whatever rows that pair already has, and none
\* otherwise; no other step changes the connection's rows of that pair.
C15_ReviewTablesAppendOnly ==
    [][ \A table \in ReviewTables :
          /\ IsPrefix(db[table], db'[table])
          /\ IsPrefix(conn[table], conn'[table])
          /\ \A c \in Competitors : \A day \in 1..MaxDay :
                Cardinality(ReviewRowsOn(conn', table, c, day)) =
                    Cardinality(ReviewRowsOn(conn, table, c, day))
                    + (IF /\ ReviewFetchedNow(table)
                          /\ c = run.ci /\ day = run.scrape_date
                          /\ YieldsSignal(table, fetchLog'[Len(fetchLog')].html)
                       THEN 1 ELSE 0) ]_vars

\* C15 witness: two runs on one date fetched a page with a signal for the
\* same competitor, and the committed table has both rows
C15_Witness ==
    /\ runNo = 2
    /\ \E r1, r2 \in TableRows(db, "reviews_trustpilot") :
          /\ r1.competitor_id = r2.competitor_id /\ r1.scrape_date = r2.scrape_date
          /\ r1.scraped_at = 1 /\ r2.scraped_at = 2

\* a text node with a script or hydration marker, or longer than 300
\* characters
IsNoiseNode(node) == node.indicator \/ node.length > 300

ExtractedPage == fetchLog[1].html
NodesOf(page) == { page.texts[i] : i \in 1..Len(page.texts) }

\* C16: when extract_pricing_v2 has returned, a record's main price is the
\* least amount of the page's nodes that are neither noise nor add-on
\* deltas, whatever the amounts of the noise nodes; and a page whose
\* price-bearing nodes are all noise nodes yields no record.
C16_NoiseNeverMainPrice ==
    (run.name = "extract_pricing_v2" /\ run.pc = "returned") =>
        LET clean == { node \in NodesOf(ExtractedPage) : ~ IsNoiseNode(node) }
            mains == { node \in clean : ~ node.addon_delta }
        IN  /\ run.best_record # <<>> =>
                 /\ \E node \in mains : node.amount = run.best_record[1].main_price
                 /\ \A node \in mains : node.amount >= run.best_record[1].main_price
            /\ clean = {} => run.best_record = <<>>

\* C16 witness: a hydration script with 5 and an over-long text with 7
\* around hero copy with 14; the record's main price is 14
C16_Witness ==
    /\ run.name = "extract_pricing_v2" /\ run.pc = "returned"
    /\ ExtractedPage.texts = << TextNode(28, TRUE, FALSE, 5, <<>>),
                                TextNode(12, FALSE, FALSE, 14, <<>>),
                                TextNode(301, FALSE, FALSE, 7, <<>>) >>
    /\ run.best_record # <<>>
    /\ run.best_record[1].main_price = 14

\* C16 witness of the second half: only noise nodes bear prices, no record
C16_WitnessOnlyNoise ==
    /\ run.name = "extract_pricing_v2" /\ run.pc = "returned"
    /\ ExtractedPage.texts = << TextNode(301, FALSE, FALSE, 7, <<>>),
                                TextNode(28, TRUE, FALSE, 5, <<>>) >>
    /\ run.best_record = <<>>

\* a route other than /login, /health and /static
IsGuardedPath(path) == path \notin {"/login", "/health", "/static/app.js"}

\* the request reached its view
WasServed(response) == response.handler # "require_auth"

\* C17: every request of the session to a route other than /login, /health
\* and /static reaches its view if and only if, before the request, the
\* most recent of the session's correct-password logins and logouts is a
\* login; otherwise the answer is the redirect to /login. Wrong and empty
\* passwords count as neither.
C17_ServedIffLoggedIn ==
    [][ (dash' # dash /\ IsGuardedPath(dash'.request.path)) =>
           /\ WasServed(dash'.response) <=> dash.last_auth = "login"
           /\ ~ WasServed(dash'.response) =>
                 (dash'.response.kind = "redirect" /\ dash'.response.location = "/login")
      ]_vars

\* C17 witness: after a correct login and a logout, a request of
\* /api/prices was redirected to /login
C17_Witness ==
    /\ dash.last_auth = "logout"
    /\ dash.request.path = "/api/prices"
    /\ ~ WasServed(dash.response)
    /\ dash.response.location = "/login"

\* C17 witness: with a correct login not followed by a logout, a request
\* of /api/prices was served
C17_WitnessServed ==
    /\ dash.last_auth = "login"
    /\ dash.request.path = "/api/prices"
    /\ WasServed(dash.response)

\* C18: every step in which the dashboard answers a GET of an /api route,
\* whatever its filters and whether or not a scraper is running, leaves
\* every table the scrapers write as it was, in the committed database and
\* in the running scraper's view of it.
C18_ApiLeavesTablesUnchanged ==
    [][ (dash' # dash /\ dash'.request.path \in API_PATHS) =>
           \A table \in WrittenTableNames :
              db'[table] = db[table] /\ conn'[table] = conn[table] ]_vars

\* C18 witness: a served GET /api/reviews filtered by competitor and date
\* has reported a committed Trustpilot row, which is still in the table
C18_Witness ==
    /\ dash.request.path = "/api/reviews"
    /\ dash.request.args.competitor = <<1>> /\ dash.request.args.date = <<1>>
    /\ WasServed(dash.response)
    /\ Len(dash.response.body.trustpilot) > 0
    /\ \A i \in 1..Len(dash.response.body.trustpilot) :
          \E row \in TableRows(db, "reviews_trustpilot") :
             row.id = dash.response.body.trustpilot[i].id

\* the tables of the scrapers that get_last_run_timestamp reads
ScrapingTables == {"prices_v2", "products_v2", "reviews_trustpilot",
                   "reviews_google", "ab_tests", "snapshots"}

\* the greatest scraped_at of the scraping tables, or none
LastRun(c) ==
    LET stamps == { row.scraped_at : row \in UNION { TableRows(c, t) : t \in ScrapingTables } }
    IN  IF stamps = {} THEN <<>>
        ELSE << CHOOSE m \in stamps : \A other \in stamps : other <= m >>

\* C19: the answer to GET /health, logged in or not, is JSON with exactly
\* the keys status, scrapers and last_run: status "ok", scrapers the number
\* of competitors, last_run the greatest scraped_at of the scraping tables
\* or null.
C19_HealthReportsScrapers ==
    dash.request.path = "/health" =>
        /\ dash.response.handler = "health"
        /\ dash.response.kind = "json"
        /\ DOMAIN dash.response.body = {"status", "scrapers", "last_run"}
        /\ dash.response.body.status = "ok"
        /\ dash.response.body.scrapers = Cardinality(Competitors)
        /\ dash.response.body.last_run = LastRun(db)

\* C20: in the committed database and in the connection's view, every
\* Diff row is the diff of its current snapshot against the snapshot that
\* immediately precedes it in its own (competitor, page_type) partition:
\* the row with the greatest id smaller than the current one's.
C20_DiffAgainstImmediatePredecessor ==
    \A c \in {db, conn} : \A d \in DiffRows(c) :
        \E p, s \in SnapshotRows(c) :
            /\ p.id = d.previous_snapshot_id
            /\ s.id = d.current_snapshot_id
            /\ ImmediatelyPrecedes(c, p, s)
            /\ d.competitor_id = s.competitor_id /\ d.page_type = s.page_type
            /\ d.diff_text = BuildUnifiedDiff(p.html_content, s.html_content,
                                              SnapshotLabel(p.id), SnapshotLabel(s.id))

\* C20 witness: the second run stored a snapshot whose Diff row is against
\* a snapshot of earlier runs, although the partition has a still older
\* snapshot, the first run stored nothing for the partition and stored a
\* snapshot of another partition in between
C20_Witness ==
    /\ runNo = 2
    /\ \E d \in DiffRows(db) : \E p, s, o, q \in SnapshotRows(db) :
          /\ p.id = d.previous_snapshot_id /\ s.id = d.current_snapshot_id
          /\ s.scraped_at = 2 /\ p.scraped_at = 0
          /\ SamePartition(o, s) /\ o.id < p.id
          /\ ~ SamePartition(q, s) /\ q.scraped_at = 1 /\ p.id < q.id /\ q.id < s.id
          /\ ~ \E m \in SnapshotRows(db) : SamePartition(m, s) /\ m.scraped_at = 1

\* the structured-payload strategy yields a price on the page
PayloadYields(page) ==
    /\ page.next_data # <<>>
    /\ page.next_data[1].json_ok
    /\ page.next_data[1].matches # <<>>

\* the text nodes of the page that the free-text strategy may take the
\* main price from
MainNodes(page) ==
    { node \in NodesOf(page) : ~ IsNoiseNode(node) /\ ~ node.addon_delta }

\* the page yields a price by either strategy
PageYields(page) == PayloadYields(page) \/ MainNodes(page) # {}

\* the main price of the page's result: the least amount of the payload,
\* or else of the text nodes
PageResult(page) ==
    LET amounts == IF PayloadYields(page)
                   THEN { page.next_data[1].matches[i].amount :
                            i \in 1..Len(page.next_data[1].matches) }
                   ELSE { node.amount : node \in MainNodes(page) }
    IN  CHOOSE a \in amounts : \A b \in amounts : a <= b

\* the fetches of the competitor in progress that yielded a price
YieldingFetches ==
    { k \in 1..Len(fetchLog) : fetchLog[k].ok /\ PageYields(fetchLog[k].html) }

\* C21: in a pricing run, once the homepage of a competitor was fetched and
\* yields a price by either strategy, it stays the competitor's only fetch,
\* and the record kept and then stored is the homepage's result: its main
\* price, with the homepage URL as source_url.
C21_HomepageHitStopsSearch ==
    (run.name = "pricing" /\ fetchLog # <<>> /\ 1 \in YieldingFetches) =>
        /\ fetchLog[1].path = ""
        /\ Len(fetchLog) = 1
        /\ run.pc \in {"store", "commit"}
        /\ run.best_record # <<>>
        /\ run.best_record[1].source_url = PageUrl(run.ci, "")
        /\ run.best_record[1].main_price = PageResult(fetchLog[1].html)
        /\ run.pc = "commit" =>
              \E row \in TableRows(conn, "prices_v2") :
                 /\ row.competitor_id = run.ci /\ row.scraped_at = run.scraped_at
                 /\ row.source_url = PageUrl(run.ci, "")
                 /\ row.main_price = PageResult(fetchLog[1].html)

\* C21 witness: the homepage yields 14 by the text strategy, the record is
\* stored and no other path was fetched
C21_Witness ==
    /\ run.name = "pricing" /\ run.pc = "commit"
    /\ Len(fetchLog) = 1 /\ fetchLog[1].ok /\ fetchLog[1].html = PriceNoisy14
    /\ \E row \in TableRows(conn, "prices_v2") :
          row.scraped_at = run.scraped_at /\ row.competitor_id = run.ci
          /\ row.main_price = 14 /\ row.source_url = PageUrl(run.ci, "")

\* C22: when a pricing run has stored a competitor's record and the
\* homepage yielded no price, the record is the result with the lowest main
\* price among the fetched paths that yielded one, the earliest such path
\* in case of a tie.
C22_LowestResultStored ==
    (run.name = "pricing" /\ run.pc = "commit" /\ 1 \notin YieldingFetches) =>
        \E k \in YieldingFetches :
            /\ \A j \in YieldingFetches :
                  \/ PageResult(fetchLog[k].html) < PageResult(fetchLog[j].html)
                  \/ PageResult(fetchLog[k].html) = PageResult(fetchLog[j].html) /\ k <= j
            /\ run.best_record[1].main_price = PageResult(fetchLog[k].html)
            /\ run.best_record[1].source_url = PageUrl(run.ci, fetchLog[k].path)

\* C23: in a pricing run, a fetched page on which the structured-payload
\* strategy yields a price is the last fetch of its competitor: the path
\* loop has ended and the payload's result is the record kept.
C23_PayloadHitStopsSearch ==
    run.name = "pricing" =>
        \A k \in 1..Len(fetchLog) :
            (fetchLog[k].ok /\ PayloadYields(fetchLog[k].html)) =>
                /\ k = Len(fetchLog)
                /\ run.pc \in {"store", "commit"}
                /\ run.best_record[1].source_url = PageUrl(run.ci, fetchLog[k].path)

\* C23 witness: the payload yields a price on the second of three paths,
\* after a homepage without price; the record is stored and the third path
\* was not fetched
C23_Witness ==
    /\ run.name = "pricing" /\ run.pc = "commit"
    /\ Len(PRICING_PATHS) > 2
    /\ Len(fetchLog) = 2
    /\ fetchLog[1].ok /\ fetchLog[1].html = PriceNone
    /\ fetchLog[2].ok /\ fetchLog[2].html = PriceNext10

\* the price of a category in a products_v2 row
PriceField(row, cat) ==
    CASE cat = "one_way" -> row.one_way_price
      [] cat = "round_trip" -> row.round_trip_price
      [] cat = "hotel" -> row.hotel_price
      [] cat = "visa_letter" -> row.visa_letter_price

\* the price the page yields for the category: the price near the first
\* keyword variant, in priority order, that has one
PagePrice(page, cat) ==
    LET priced == { i \in 1..Len(ANCHORS[cat]) :
                      /\ ANCHORS[cat][i] \in page.keywords
                      /\ page.near[ANCHORS[cat][i]] # <<>> }
    IN  IF priced = {} THEN <<>>
        ELSE page.near[ANCHORS[cat][CHOOSE i \in priced : \A j \in priced : i <= j]]

\* C24: when the products scraper has stored the merged record of a
\* competitor, the price of each category is the price of the first fetched
\* page, in fetch order, that yields a price for the category, and null
\* only if no fetched page yields one.
C24_FirstPriceAcrossPages ==
    (run.name = "products" /\ run.pc = "commit") =>
        \A row \in StoredProductRows : \A cat \in Categories :
            LET yielding == { k \in 1..Len(fetchLog) :
                                fetchLog[k].ok /\ PagePrice(fetchLog[k].html, cat) # <<>> }
            IN  PriceField(row, cat) =
                   IF yielding = {} THEN <<>>
                   ELSE PagePrice(fetchLog[CHOOSE k \in yielding :
                                              \A j \in yielding : k <= j].html, cat)

\* the page a review scraper has just fetched and the row it stored from it
ReviewStored(name) == run.name = name /\ run.pc = "commit"
LastFetchedPage == fetchLog[Len(fetchLog)].html
LastRow(table) == conn[table][Len(conn[table])]
HoldsValuesOf(row, aggregate) ==
    row.overall_rating = aggregate.rating /\ row.review_count = aggregate.count

\* C25: in both review extractors the aggregate-rating block is tried
\* before the embedded JSON payload and the later fallbacks: a stored row
\* holds the rating and count of the page's aggregate-rating block whenever
\* that block yields a rating or a count, also when the page's embedded
\* payload carries other values.
C25_AggregateBlockFirst ==
    /\ ReviewStored("reviews_trustpilot") /\ HasValue(LastFetchedPage.ld_json)
          => HoldsValuesOf(LastRow("reviews_trustpilot"), LastFetchedPage.ld_json)
    /\ ReviewStored("reviews_google") /\ HasValue(LastFetchedPage.ld_json)
          => HoldsValuesOf(LastRow("reviews_google"), LastFetchedPage.ld_json)

\* C25 (amended): the Trustpilot extractor tries the embedded __NEXT_DATA__
\* payload first and the aggregate-rating block only when the payload gives
\* neither a rating nor a count; the Google extractor tries the
\* aggregate-rating block, then the itemprop tags, then the text patterns.
\* In each, the first strategy that yields a rating or a count determines
\* both values of the stored row, so a Trustpilot page carrying both a
\* payload and an aggregate-rating block is stored with the payload's values.
C25_FirstYieldingStrategy ==
    /\ ReviewStored("reviews_trustpilot") =>
          LET page == LastFetchedPage
              row == LastRow("reviews_trustpilot")
          IN  IF HasValue(page.next_data)
              THEN HoldsValuesOf(row, page.next_data)
              ELSE HoldsValuesOf(row, page.ld_json)
    /\ ReviewStored("reviews_google") =>
          LET page == LastFetchedPage
              row == LastRow("reviews_google")
          IN  IF HasValue(page.ld_json) THEN HoldsValuesOf(row, page.ld_json)
              ELSE IF HasValue(page.itemprop) THEN HoldsValuesOf(row, page.itemprop)
              ELSE HoldsValuesOf(row, page.text)

\* C25 witness: a Trustpilot page with a payload and an aggregate-rating
\* block of different values was stored with the payload's rating
C25_Witness ==
    /\ ReviewStored("reviews_trustpilot")
    /\ HasValue(LastFetchedPage.next_data) /\ HasValue(LastFetchedPage.ld_json)
    /\ LastFetchedPage.next_data.rating # LastFetchedPage.ld_json.rating
    /\ LastRow("reviews_trustpilot").overall_rating = LastFetchedPage.next_data.rating

\* C25 witness: a Google listing with an aggregate-rating block and itemprop
\* tags of different values was stored with the block's rating
C25_WitnessGoogle ==
    /\ ReviewStored("reviews_google")
    /\ HasValue(LastFetchedPage.ld_json) /\ HasValue(LastFetchedPage.itemprop)
    /\ LastRow("reviews_google").overall_rating = <<3>>

\* the containers of the searched payload that lie within the cap: depths 0
\* to DEPTH_CAP
WithinCap ==
    { i \in 1..Len(fetchLog[1].html) : i - 1 <= DEPTH_CAP }

\* C26: both recursive searches of an embedded JSON payload are
\* depth-bounded: whatever the nesting of the payload, the rating and count
\* returned by the metrics search and the review texts returned by the
\* review search come from containers nested at most DEPTH_CAP levels deep;
\* a named key lying deeper is never reached.
C26_SearchesDepthBounded ==
    LET levels == fetchLog[1].html
    IN  /\ (run.name = "extract_nextjs_data" /\ run.pc = "returned") =>
              /\ run.best_record.rating # <<>> =>
                    \E i \in WithinCap : levels[i].trustScore = run.best_record.rating
              /\ run.best_record.count # <<>> =>
                    \E i \in WithinCap : levels[i].numberOfReviews = run.best_record.count
        /\ (run.name = "extract_reviews_from_next_data" /\ run.pc = "returned") =>
              \A t \in 1..Len(run.best_record) :
                  \E i \in WithinCap : \E r \in 1..Len(levels[i].reviews) :
                      levels[i].reviews[r] = run.best_record[t]

\* C27: within one competitor, the pricing, product and snapshot scrapers
\* issue their fetches one after the other, and a politeness delay lies
\* between any two consecutive fetches of the competitor's paths or page
\* types.
C27_DelayBetweenFetches ==
    run.name \in {"pricing", "products", "snapshots"} =>
        \A k \in 2..Len(fetchLog) :
            fetchLog[k].competitor_id = fetchLog[k - 1].competitor_id => fetchLog[k].slept

\* the themes of a competitor's star level on a date, as the connection
\* sees them
ThemesOn(c, competitor_id, scrape_date, stars) ==
    { [theme |-> row.theme, mention_count |-> row.mention_count] :
        row \in { r \in TableRows(c, "reviews_sentiment") :
                    /\ r.competitor_id = competitor_id /\ r.scrape_date = scrape_date
                    /\ r.stars_filter = stars } }

\* C28: whenever the inference service is unavailable for a batch of review
\* texts, found down by the probe at the start of the run or failing the
\* request made for the batch, the step that handles the batch stores every
\* theme of the local bigram fallback for the batch's competitor, date and
\* star level.
C28_FallbackWheneverUnavailable ==
    [][ ( /\ run.name = "reviews_sentiment"
          /\ Len(fetchLog') = Len(fetchLog) + 1
          /\ fetchLog'[Len(fetchLog')].ok
          /\ fetchLog'[Len(fetchLog')].html.ollama \in {"down", "failed"} )
        => LET fetch == fetchLog'[Len(fetchLog')]
               fallback == FallbackThemes(fetch.html.page)
           IN  \A i \in 1..Len(fallback) :
                  [theme |-> fallback[i].theme, mention_count |-> fallback[i].mention_count]
                     \in ThemesOn(conn', fetch.competitor_id, run.scrape_date, fetch.path)
      ]_vars

\* C29: in every committed database state of snapshot runs, whatever
\* fetches fail, whichever store raises and wherever the process dies, each
\* Diff row's previous_snapshot_id and current_snapshot_id are the ids of
\* Snapshot rows of the Diff row's own competitor and page type, the
\* previous id smaller than the current one.
C29_DiffRowsReferToSnapshots ==
    \A d \in DiffRows(db) :
        \E p, s \in SnapshotRows(db) :
            /\ p.id = d.previous_snapshot_id /\ s.id = d.current_snapshot_id
            /\ p.competitor_id = d.competitor_id /\ p.page_type = d.page_type
            /\ s.competitor_id = d.competitor_id /\ s.page_type = d.page_type
            /\ p.id < s.id

\* C29 witness: a run committed a Diff row for its first competitor, then
\* stored a snapshot and a Diff row for the next one and lost both to a
\* database error or to the death of the process
C29_Witness ==
    /\ run.name = "snapshots" /\ run.pc \in {"raised", "crashed"}
    /\ \E d \in DiffRows(db) : \E s \in SnapshotRows(db) :
          s.id = d.current_snapshot_id /\ s.scraped_at = run.scraped_at
    /\ \E w \in run.written : w.table = "diffs" /\ w.row \notin DiffRows(db)

\* C30: once a store of a scraper run has raised a database error for
\* competitor k, the run has visited no competitor after k and the rows it
\* wrote for the competitors before k are in the committed database; and as
\* long as that run is the current one, no step fetches a page or changes
\* the connection's view or the committed database.
C30_StoreErrorEndsRun ==
    /\ [](run.db_error =>
            /\ \A c \in run.visited : c <= run.ci
            /\ \A w \in run.written :
                  w.row.competitor_id < run.ci => w.row \in TableRows(db, w.table))
    /\ [][ (run.db_error /\ runNo' = runNo) =>
              /\ fetchLog' = fetchLog /\ fetched' = fetched
              /\ conn' = conn /\ db' = db
              /\ run'.written = run.written /\ run'.ci = run.ci ]_vars

\* C30 witness: the store for the second competitor raised after the rows
\* of the first one were committed
C30_Witness ==
    /\ run.db_error /\ run.ci = 2
    /\ \E w \in run.written :
          w.row.competitor_id = 1 /\ w.row \in TableRows(db, w.table)

====
